---------------------------- MODULE Spec2Model ----------------------------
(***************************************************************************)
(* A model of the ATS resume analyzer: KeywordExtractor                    *)
(* (keyword_extractor.py), SimilarityCalculator (similarity_calculator.py) *)
(* and ATSPipeline.analyze (ats_pipeline.py).                              *)
(*                                                                         *)
(* Numbers.  Python floats that the code rounds to 4 decimals (match       *)
(* rates, text similarity, overall_score) are integers in units of 1e-4;   *)
(* overall_percentage and coverage_percentage (rounded to 2 decimals) are  *)
(* integers in units of 0.01 percent.  A weight 0.50 is the integer 50     *)
(* (units of 1/100).                                                       *)
(*                                                                         *)
(* Texts are sequences of one-character strings.  A Python list is a       *)
(* sequence, a Python set a set, a dict a record.                          *)
(***************************************************************************)
EXTENDS Integers, Sequences, FiniteSets, TLC

VARIABLES
    pc,                 \* position of the running call
    hash_seed,          \* the string-hash seed of the interpreter process
    use_spacy,          \* KeywordExtractor.use_spacy
    nlp,                \* KeywordExtractor.nlp: "loaded" or "None"
    resume_text,        \* analyze: text extracted from the resume PDF
    job_description,    \* analyze: the job description argument
    resume_keywords,    \* bundle of the resume (or the list argument of keyword_overlap_score)
    job_keywords,       \* bundle of the job (or the list argument of keyword_overlap_score)
    overlap,            \* return value of keyword_overlap_score
    similarity_results, \* return value of calculate_weighted_score
    recommendations,    \* return value of generate_recommendations
    results,            \* return value of ATSPipeline.analyze
    preprocessed_text,       \* return value of preprocess_text
    skills_csv,         \* first column of the skills CSV file
    extractors,         \* the RAGSkillsExtractor each worker is constructing or holds
    cache_file,         \* the file at embeddings_cache_path
    detected_skills,    \* the last call of extract_skills_rag and what it returned
    db_jobs,            \* hiring platform database: the jobs table
    db_users,           \* hiring platform database: the users table
    db_applications,    \* hiring platform database: the applications table
    engine_result       \* what the last call of the matching engine yielded

\* The state of the RAG skills extractor
rag_vars == <<skills_csv, extractors, cache_file, detected_skills>>

\* The state of the pipeline, but the position
pipeline_vars == <<hash_seed, use_spacy, nlp, resume_text, job_description, resume_keywords,
                   job_keywords, overlap, similarity_results, recommendations, results>>

\* The state of the hiring platform
hiring_vars == <<db_jobs, db_users, db_applications, engine_result>>

vars == <<pc, pipeline_vars, preprocessed_text, rag_vars, hiring_vars>>

\* Python's None
None == [none |-> TRUE]

\* No RAG skills extractor is in use
RagUnused ==
    /\ skills_csv = None
    /\ extractors = None
    /\ cache_file = None
    /\ detected_skills = None

\* No hiring platform is in use
HiringUnused ==
    /\ db_jobs = None
    /\ db_users = None
    /\ db_applications = None
    /\ engine_result = None

\* No pipeline object is in use
PipelineUnused ==
    /\ hash_seed = 0
    /\ use_spacy = FALSE
    /\ nlp = "None"
    /\ resume_text = None
    /\ resume_keywords = None
    /\ job_keywords = None
    /\ overlap = None
    /\ similarity_results = None
    /\ recommendations = None
    /\ results = None

\* An exception that leaves a function is the value the function yields.
ZeroDivisionError == [raised |-> "ZeroDivisionError"]
Raised(r) == "raised" \in DOMAIN r

\* What a division by zero yields where a number is expected (no rate is negative)
DIV_FAULT == -1

----------------------------------------------------------------------------
(* Bounds of the model *)

\* longest keyword list handed to the calculator
MaxKw == 2
\* longest text handed to extract_keywords
MaxLen == 3
\* longest resume text and job description handed to ATSPipeline.analyze
MaxDocLen == 2
\* longest keyword list the spaCy extraction returns
MaxSpacy == 2
\* longest text handed to preprocess_text
MaxPreLen == 4
\* most technical skills of a bundle handed to generate_recommendations' caller
MaxSkills == 6

----------------------------------------------------------------------------
(* Python helpers *)

\* set(list)
ToSet(list) == {list[i] : i \in 1..Len(list)}

RECURSIVE ListOf(_)
\* list(set): one enumeration of the set's elements, each exactly once
ListOf(S) ==
    IF S = {} THEN <<>>
    ELSE LET e == CHOOSE e \in S : TRUE IN <<e>> \o ListOf(S \ {e})

\* list[::-1]
Reverse(list) == [i \in 1..Len(list) |-> list[Len(list) + 1 - i]]

\* The string-hash seeds of an interpreter process (PYTHONHASHSEED is drawn
\* at random when the process starts).  Two seeds are told apart.
HashSeeds == {0, 1}

\* list(set) of a set of strings in a process with this hash seed: a set
\* iterates in the order of its hash table, which the seed fixes.  The same
\* set built the same way in one process always iterates the same way;
\* another seed can give another order.
list_of_set(S, seed) == IF seed = 0 THEN ListOf(S) ELSE Reverse(ListOf(S))

\* All lists over U of length at most n
ListsUpTo(U, n) == UNION {[1..k -> U] : k \in 0..n}

\* n / d rounded to the nearest integer, a tie going to the even neighbour:
\* round() of a value that is exactly representable.
RoundHalfEven(n, d) ==
    LET q == n \div d
        r == n % d
    IN  IF 2 * r > d \/ (2 * r = d /\ q % 2 = 1) THEN q + 1 ELSE q

\* The values round(n / d) can take when n / d was computed in binary floating
\* point: the nearest integer, and at a decimal tie either neighbour (the
\* float next to the tie lies on one side of it or the other).
PyRound(n, d) ==
    LET q == n \div d
        r == n % d
    IN  IF 2 * r = d THEN {q, q + 1}
        ELSE IF 2 * r > d THEN {q + 1} ELSE {q}

\* Python's true division a / b, in units of 1/scale, rounded to the unit
Div(a, b, scale) ==
    IF b = 0 THEN DIV_FAULT ELSE RoundHalfEven(a * scale, b)

----------------------------------------------------------------------------
(* Texts *)

\* The characters of the modelled texts, in code-point order: a whitespace, a
\* punctuation mark, an upper-case letter and two lower-case letters.
CharOrder == <<" ", ".", "R", "c", "r">>
Alphabet == ToSet(CharOrder)

\* str.lower() of one character
LowerChar(c) == IF c = "R" THEN "r" ELSE c

\* [a-zA-Z0-9] and \w (no underscore is modelled)
IsAlnum(c) == c \in {"R", "c", "r", "7"}
IsWordChar(c) == IsAlnum(c)
\* \s, and what str.split() and str.strip() take for whitespace
IsSpace(c) == c \in {" ", "\t"}

\* str.lower()
Lower(text) == [i \in 1..Len(text) |-> LowerChar(text[i])]

\* text[i:i+len(pat)] == pat
MatchesAt(text, pat, i) ==
    /\ i + Len(pat) - 1 <= Len(text)
    /\ \A k \in 1..Len(pat) : text[i + k - 1] = pat[k]

\* pat in text
Contains(text, pat) == \E i \in 1..(Len(text) + 1) : MatchesAt(text, pat, i)

\* \b between text[i-1] and text[i]: exactly one of the two is a word character
\* (the outside of the text is not)
WordBoundary(text, i) ==
    LET before == i > 1 /\ IsWordChar(text[i - 1])
        after == i <= Len(text) /\ IsWordChar(text[i])
    IN  before # after

\* re.search(r'\b' + re.escape(pat) + r'\b', text)
SearchWord(text, pat) ==
    \E i \in 1..(Len(text) + 1) :
        /\ MatchesAt(text, pat, i)
        /\ WordBoundary(text, i)
        /\ WordBoundary(text, i + Len(pat))

\* The character classes runs are cut by: not \s (str.split), \w (a token)
InClass(c, class) == IF class = "word" THEN IsWordChar(c) ELSE ~IsSpace(c)

RECURSIVE Runs(_, _, _, _)
\* The maximal runs of characters of the class, from position i on; cur is
\* the run being read.
Runs(text, i, cur, class) ==
    IF i > Len(text) THEN (IF cur = <<>> THEN <<>> ELSE <<cur>>)
    ELSE IF InClass(text[i], class) THEN Runs(text, i + 1, Append(cur, text[i]), class)
    ELSE (IF cur = <<>> THEN <<>> ELSE <<cur>>) \o Runs(text, i + 1, <<>>, class)

\* text.split()
Split(text) == Runs(text, 1, <<>>, "nonspace")

RECURSIVE Join(_)
\* ' '.join(words)
Join(words) ==
    IF words = <<>> THEN <<>>
    ELSE IF Len(words) = 1 THEN words[1]
    ELSE words[1] \o <<" ">> \o Join(Tail(words))

----------------------------------------------------------------------------
(* KeywordExtractor *)

\* re.sub(r'[^a-zA-Z0-9\s\+\#]', ' ', text)
SubSpecial(text) ==
    [i \in 1..Len(text) |->
        IF IsAlnum(text[i]) \/ IsSpace(text[i]) \/ text[i] \in {"+", "#"}
        THEN text[i] ELSE " "]

\* (variant: the whitespace is not collapsed)
preprocess_text_no_collapse(text) == SubSpecial(Lower(text))

preprocess_text(text) == Join(Split(SubSpecial(Lower(text))))

\* The entries of skills_database that can be spelled with the modelled
\* characters: 'r' and 'c ' (no other entry can occur in a modelled text).
skills_database == {<<"r">>, <<"c", " ">>}

extract_technical_skills(text) ==
    LET text_lower == Lower(text)
    IN  {skill \in skills_database : " " \in ToSet(skill) /\ Contains(text_lower, skill)}
        \cup
        {skill \in skills_database : " " \notin ToSet(skill) /\ SearchWord(text_lower, skill)}

\* What a call yields: a value, or the exception that left it
Ok(v) == [value |-> v]
ValueError == [raised |-> "ValueError"]

\* extract_keywords(text, top_n=30)
TOP_N == 30

\* TfidfVectorizer(min_df=1, max_df=0.95), fitted on the one-document corpus
\* [cleaned_text]; max_df in percent
MIN_DF == 1
MAX_DF_PCT == 95
N_DOCS == 1
\* ngram_range=(1, 3)
MAX_NGRAM == 3
\* token_pattern \w\w+ : a token has at least two characters
MIN_TOKEN_LEN == 2
\* len(kw) > 2
MIN_KW_LEN == 2

\* stop_words='english' and custom_stop_words: no word of either list can be
\* spelled with the modelled letters
english_stop_words == {}
custom_stop_words == {}

\* The tokens the vectorizer reads: runs of two or more word characters of
\* the lower-cased text that are not stop words
Tokens(text) ==
    SelectSeq(Runs(Lower(text), 1, <<>>, "word"),
              LAMBDA w : Len(w) >= MIN_TOKEN_LEN /\ w \notin english_stop_words)

\* The n-grams of the tokens up to size max_n, as <<size, position>>, and the
\* term each spells
NGramPlaces(tokens, max_n) ==
    {<<n, i>> \in (1..max_n) \X (1..Len(tokens)) : i + n - 1 <= Len(tokens)}
NGramAt(tokens, place) == Join(SubSeq(tokens, place[2], place[2] + place[1] - 1))
Terms(tokens, max_n) == {NGramAt(tokens, place) : place \in NGramPlaces(tokens, max_n)}
TermCount(tokens, term, max_n) ==
    Cardinality({place \in NGramPlaces(tokens, max_n) : NGramAt(tokens, place) = term})

\* The position of a character in code-point order
CharRank(c) == CHOOSE i \in 1..Len(CharOrder) : CharOrder[i] = c

\* a < b for Python strings
StrLess(a, b) ==
    \E k \in 1..(Len(a) + 1) :
        /\ \A i \in 1..(k - 1) : i <= Len(b) /\ a[i] = b[i]
        /\ \/ k = Len(a) + 1 /\ Len(b) >= k
           \/ k <= Len(a) /\ k <= Len(b) /\ CharRank(a[k]) < CharRank(b[k])

\* A document frequency the vectorizer keeps: min_df <= df <= max_df * n_docs
DfKept(df) == MIN_DF <= df /\ df * 100 <= MAX_DF_PCT * N_DOCS

\* vectorizer.fit_transform([cleaned_text]) and get_feature_names_out(): the
\* kept terms in alphabetical order with their counts, or ValueError when no
\* term is left (an empty vocabulary, or every term pruned by min_df/max_df).
\* Every term of a one-document corpus has document frequency 1.  A modelled
\* text has fewer than max_features = 2 * top_n terms, so that cap prunes
\* nothing.  With one document the TF-IDF weight of a term is its count
\* divided by one common norm, so the counts rank the terms as the weights do.
fit_transform(cleaned_text) ==
    LET tokens == Tokens(cleaned_text)
        kept == {term \in Terms(tokens, MAX_NGRAM) : DfKept(N_DOCS)}
    IN  IF kept = {} THEN ValueError
        ELSE Ok(SortSeq(ListOf({[term |-> term,
                                  count |-> TermCount(tokens, term, MAX_NGRAM)]
                                 : term \in kept}),
                        LAMBDA a, b : StrLess(a.term, b.term)))

\* keyword_scores.sort(key=lambda x: x[1], reverse=True): a stable sort by
\* decreasing score, equal scores keeping the alphabetical order
SortByScore(features) ==
    SortSeq(features,
            LAMBDA a, b : a.count > b.count
                          \/ (a.count = b.count /\ StrLess(a.term, b.term)))

FirstN(list, n) == SubSeq(list, 1, IF Len(list) < n THEN Len(list) ELSE n)

extract_keywords_tfidf(text, top_n) ==
    LET cleaned_text == preprocess_text(text)
        fitted == fit_transform(cleaned_text)
    IN  IF Raised(fitted) THEN <<>>
        ELSE LET keyword_scores == SortByScore(fitted.value)
                 filtered_keywords ==
                     SelectSeq(keyword_scores,
                               LAMBDA f : f.term \notin custom_stop_words
                                          /\ Len(f.term) > MIN_KW_LEN)
             IN  FirstN([i \in 1..Len(filtered_keywords) |-> filtered_keywords[i].term],
                        top_n)

\* KeywordExtractor.__init__(use_spacy): nlp is loaded when spaCy is asked for
\* and one of its two models is installed; otherwise use_spacy ends False.
KeywordExtractorInit(use_spacy_arg, model_installed) ==
    IF use_spacy_arg /\ model_installed
    THEN [use_spacy |-> TRUE, nlp |-> "loaded"]
    ELSE [use_spacy |-> FALSE, nlp |-> "None"]

\* Duplicate-free lists over S of length at most n
DistinctListsUpTo(S, n) ==
    {list \in ListsUpTo(S, n) : Cardinality(ToSet(list)) = Len(list)}

\* What extract_keywords_spacy(text, top_n) yields.  The spaCy model is not
\* modelled: self.nlp(text) raises (spaCy raises ValueError on a text longer
\* than nlp.max_length) or returns a document, whose entities and lemmas give
\* a frequency-ranked list of distinct lower-cased keywords, here any list of
\* at most MaxSpacy distinct words of the text.
extract_keywords_spacy(self_nlp, text, top_n) ==
    IF self_nlp = "None" THEN {Ok(<<>>)}
    ELSE {ValueError}
         \cup {Ok(FirstN(list, top_n))
               : list \in DistinctListsUpTo(ToSet(Split(Lower(text))), MaxSpacy)}

\* (variant: the technical skills are left out of the union)
AllKeywordsNoSkills(result, seed) ==
    list_of_set(UNION {ToSet(result[k]) : k \in DOMAIN result \ {"technical_skills"}}, seed)

\* all_keywords: the union of the values of result, as a list
AllKeywords(result, seed) ==
    list_of_set(UNION {ToSet(result[k]) : k \in DOMAIN result}, seed)

\* (variant: with spaCy off the key is set to an empty list)
BundleWithEmptySpacy(technical_skills, tfidf_keywords, seed) ==
    LET result == [technical_skills |-> technical_skills,
                   tfidf_keywords   |-> tfidf_keywords,
                   spacy_keywords   |-> <<>>]
    IN  [technical_skills |-> technical_skills,
         tfidf_keywords   |-> tfidf_keywords,
         spacy_keywords   |-> <<>>,
         all_keywords     |-> AllKeywords(result, seed)]

\* The bundle extract_keywords returns when spaCy is off: no spacy_keywords key
BundleWithoutSpacy(technical_skills, tfidf_keywords, seed) ==
    LET result == [technical_skills |-> technical_skills,
                   tfidf_keywords   |-> tfidf_keywords]
    IN  [technical_skills |-> technical_skills,
         tfidf_keywords   |-> tfidf_keywords,
         all_keywords     |-> AllKeywords(result, seed)]

\* The bundle extract_keywords returns when spaCy is on
BundleWithSpacy(technical_skills, tfidf_keywords, spacy_keywords, seed) ==
    LET result == [technical_skills |-> technical_skills,
                   tfidf_keywords   |-> tfidf_keywords,
                   spacy_keywords   |-> spacy_keywords]
    IN  [technical_skills |-> technical_skills,
         tfidf_keywords   |-> tfidf_keywords,
         spacy_keywords   |-> spacy_keywords,
         all_keywords     |-> AllKeywords(result, seed)]

\* What extract_keywords(text, top_n) yields: a bundle, or the exception of
\* extract_keywords_spacy
extract_keywords(self_use_spacy, self_nlp, text, top_n, seed) ==
    LET technical_skills == list_of_set(extract_technical_skills(text), seed)
        tfidf_keywords == extract_keywords_tfidf(text, top_n)
    IN  IF self_use_spacy /\ self_nlp # "None"
        THEN {IF Raised(spacy) THEN spacy
              ELSE Ok(BundleWithSpacy(technical_skills, tfidf_keywords, spacy.value, seed))
              : spacy \in extract_keywords_spacy(self_nlp, text, top_n)}
        ELSE {Ok(BundleWithoutSpacy(technical_skills, tfidf_keywords, seed))}

----------------------------------------------------------------------------
(* SimilarityCalculator *)

\* one unit of a 4-decimal float: 1.0 is Unit
Unit == 10000

\* The values a cosine similarity rounded to 4 decimals is drawn from
TextSims == {0, 2500, 5000, Unit}

\* TfidfVectorizer(stop_words='english', ngram_range=(1, 2)) of cosine_similarity_score
COSINE_MAX_NGRAM == 2

\* What cosine_similarity_score(resume_text, job_text) can return.  Two texts
\* with no term in common have cosine 0.0 (so has a text without a token, and
\* so returns the except branch when neither text has one); two texts with
\* the same terms in the same numbers have equal vectors and cosine 1.0.  The
\* TF-IDF weights of scikit-learn are not modelled: for any other two texts
\* any value may come back.
cosine_similarity_score(resume_txt, job_txt) ==
    LET resume_tokens == Tokens(resume_txt)
        job_tokens == Tokens(job_txt)
        resume_terms == Terms(resume_tokens, COSINE_MAX_NGRAM)
        job_terms == Terms(job_tokens, COSINE_MAX_NGRAM)
    IN  IF resume_terms \cap job_terms = {} THEN {0}
        ELSE IF /\ resume_terms = job_terms
                /\ \A term \in job_terms :
                     TermCount(resume_tokens, term, COSINE_MAX_NGRAM)
                       = TermCount(job_tokens, term, COSINE_MAX_NGRAM)
        THEN {Unit}
        ELSE TextSims

jaccard_similarity(set1, set2) ==
    IF set1 = {} \/ set2 = {} THEN 0
    ELSE LET intersection == Cardinality(set1 \cap set2)
             union == Cardinality(set1 \cup set2)
         IN  IF union > 0 THEN Div(intersection, union, Unit) ELSE 0

\* (variant: the division without its guard)
MatchRateNoGuard(matched_keywords, job_set) ==
    Div(Cardinality(matched_keywords), Cardinality(job_set), Unit)

\* len(matched_keywords) / len(job_set) if job_set else 0.0
MatchRate(matched_keywords, job_set) ==
    IF job_set # {} THEN Div(Cardinality(matched_keywords), Cardinality(job_set), Unit)
    ELSE 0

\* matched_keywords is list(matched_keywords): the matched set in the
\* iteration order of the process
keyword_overlap_score(resume_kw, job_kw, seed) ==
    LET resume_set == ToSet(resume_kw)
        job_set == ToSet(job_kw)
        matched_keywords == resume_set \cap job_set
        jaccard == jaccard_similarity(resume_set, job_set)
        match_rate == MatchRate(matched_keywords, job_set)
    IN  IF match_rate = DIV_FAULT THEN ZeroDivisionError
        ELSE [jaccard_similarity  |-> jaccard,
              match_rate          |-> match_rate,
              matched_keywords    |-> list_of_set(matched_keywords, seed),
              matched_count       |-> Cardinality(matched_keywords),
              total_job_keywords  |-> Cardinality(job_set),
              coverage_percentage |-> match_rate]


\* dict.get(key, [])
Get(d, key) == IF key \in DOMAIN d THEN d[key] ELSE <<>>

\* Weights of the normal branch and of the fallback branch, in 1/100
W_SKILLS == 50
W_TFIDF == 25
W_ALL == 15
W_TEXT == 10
FB_SKILLS == 60
FB_ALL == 30
FB_TEXT == 10

\* Thresholds of match_level, in 0.01 percent
EXCELLENT_PCT == 8000
GOOD_PCT == 6500
MODERATE_PCT == 5000
LOW_PCT == 3500

\* (variant: only the job's list is looked at)
HasTfidfJobOnly(resume_kw, job_kw) ==
    Len(Get(job_kw, "tfidf_keywords")) > 0

\* (variant: no fallback branch)
HasTfidfAlways(resume_kw, job_kw) == TRUE

\* has_tfidf: both documents produced TF-IDF keywords
HasTfidf(resume_kw, job_kw) ==
    Len(Get(resume_kw, "tfidf_keywords")) > 0 /\ Len(Get(job_kw, "tfidf_keywords")) > 0

\* (variant: the fallback branch keeps the normal weights of its three terms)
WeightedScoreNoRedistribution(has_tfidf, skills_rate, tfidf_rate, all_rate, text_similarity) ==
    IF has_tfidf
    THEN skills_rate * W_SKILLS + tfidf_rate * W_TFIDF + all_rate * W_ALL
         + text_similarity * W_TEXT
    ELSE skills_rate * W_SKILLS + all_rate * W_ALL + text_similarity * W_TEXT

\* (variant: the skills term weighs the share of skills that is missing)
WeightedScoreMissingRate(has_tfidf, skills_rate, tfidf_rate, all_rate, text_similarity) ==
    IF has_tfidf
    THEN (Unit - skills_rate) * W_SKILLS + tfidf_rate * W_TFIDF + all_rate * W_ALL
         + text_similarity * W_TEXT
    ELSE (Unit - skills_rate) * FB_SKILLS + all_rate * FB_ALL + text_similarity * FB_TEXT

\* (variant: the fallback weights of skills and all keywords exchanged)
WeightedScoreSwappedFallback(has_tfidf, skills_rate, tfidf_rate, all_rate, text_similarity) ==
    IF has_tfidf
    THEN skills_rate * W_SKILLS + tfidf_rate * W_TFIDF + all_rate * W_ALL
         + text_similarity * W_TEXT
    ELSE skills_rate * FB_ALL + all_rate * FB_SKILLS + text_similarity * FB_TEXT

\* weighted_score * 10^6 (rates are in 1e-4, weights in 1/100)
WeightedScore(has_tfidf, skills_rate, tfidf_rate, all_rate, text_similarity) ==
    IF has_tfidf
    THEN skills_rate * W_SKILLS + tfidf_rate * W_TFIDF + all_rate * W_ALL
         + text_similarity * W_TEXT
    ELSE skills_rate * FB_SKILLS + all_rate * FB_ALL + text_similarity * FB_TEXT

\* (variant: > for >=)
MatchLevelStrict(overall_percentage) ==
    IF overall_percentage > EXCELLENT_PCT THEN "Excellent Match"
    ELSE IF overall_percentage > GOOD_PCT THEN "Good Match"
    ELSE IF overall_percentage > MODERATE_PCT THEN "Moderate Match"
    ELSE IF overall_percentage > LOW_PCT THEN "Low Match"
    ELSE "Poor Match"

MatchLevel(overall_percentage) ==
    IF overall_percentage >= EXCELLENT_PCT THEN "Excellent Match"
    ELSE IF overall_percentage >= GOOD_PCT THEN "Good Match"
    ELSE IF overall_percentage >= MODERATE_PCT THEN "Moderate Match"
    ELSE IF overall_percentage >= LOW_PCT THEN "Low Match"
    ELSE "Poor Match"

\* (variant: the difference taken the other way round)
MissingSkillsReversed(resume_kw, job_kw) ==
    ToSet(Get(resume_kw, "technical_skills")) \ ToSet(Get(job_kw, "technical_skills"))

\* set(job technical_skills) - set(resume technical_skills)
MissingSkills(resume_kw, job_kw) ==
    ToSet(Get(job_kw, "technical_skills")) \ ToSet(Get(resume_kw, "technical_skills"))

\* The records calculate_weighted_score can return for one text similarity.
\* has_tfidf is the local variable of the call, kept to tell the branch taken.
\* matched_skills, matched_tfidf_keywords and missing_skills are list(set),
\* in the iteration order of the process.
calculate_weighted_score(text_similarity, resume_kw, job_kw, seed) ==
    LET all_kw_overlap == keyword_overlap_score(Get(resume_kw, "all_keywords"),
                                                Get(job_kw, "all_keywords"), seed)
        skills_overlap == keyword_overlap_score(Get(resume_kw, "technical_skills"),
                                                Get(job_kw, "technical_skills"), seed)
        tfidf_overlap == keyword_overlap_score(Get(resume_kw, "tfidf_keywords"),
                                               Get(job_kw, "tfidf_keywords"), seed)
    IN  IF Raised(all_kw_overlap) \/ Raised(skills_overlap) \/ Raised(tfidf_overlap)
        THEN {ZeroDivisionError}
        ELSE
        LET has_tfidf == HasTfidf(resume_kw, job_kw)
            weighted_score == WeightedScore(has_tfidf, skills_overlap.match_rate,
                                            tfidf_overlap.match_rate,
                                            all_kw_overlap.match_rate, text_similarity)
        IN  { [overall_score      |-> overall_score,
               overall_percentage |-> overall_percentage,
               match_level        |-> MatchLevel(overall_percentage),
               detailed_scores    |->
                   [text_similarity         |-> text_similarity,
                    skills_match_rate       |-> skills_overlap.match_rate,
                    tfidf_match_rate        |-> tfidf_overlap.match_rate,
                    all_keywords_match_rate |-> all_kw_overlap.match_rate],
               matched_skills     |-> skills_overlap.matched_keywords,
               matched_tfidf_keywords |-> tfidf_overlap.matched_keywords,
               skills_coverage    |-> skills_overlap.coverage_percentage,
               missing_skills     |-> list_of_set(MissingSkills(resume_kw, job_kw), seed),
               has_tfidf          |-> has_tfidf]
              : overall_score \in PyRound(weighted_score, 100),
                overall_percentage \in PyRound(weighted_score, 100) }

\* Thresholds of generate_recommendations
LOW_MATCH_PCT == 5000
HIGHLIGHT_RATE == 5000
STRONG_MATCH_PCT == 7000
MAX_LISTED == 5

Message(msg, skills) == [msg |-> msg, skills |-> skills]

\* (variant: the four conditions chained with elif)
generate_recommendations_elif(score_results) ==
    LET overall_pct == score_results.overall_percentage
        missing_skills == score_results.missing_skills
    IN  IF overall_pct < LOW_MATCH_PCT THEN <<Message("low_match", <<>>)>>
        ELSE IF missing_skills # <<>>
        THEN <<Message("missing_skills", FirstN(missing_skills, MAX_LISTED))>>
        ELSE IF score_results.detailed_scores.skills_match_rate < HIGHLIGHT_RATE
        THEN <<Message("highlight_skills", <<>>)>>
        ELSE IF overall_pct >= STRONG_MATCH_PCT
        THEN <<Message("strong_match", <<>>)>>
        ELSE <<>>

\* The messages, named by their condition; the missing-skills message carries
\* the skills it names, missing_skills[:5].
generate_recommendations(score_results) ==
    LET overall_pct == score_results.overall_percentage
        missing_skills == score_results.missing_skills
    IN  (IF overall_pct < LOW_MATCH_PCT THEN <<Message("low_match", <<>>)>> ELSE <<>>)
        \o (IF missing_skills # <<>>
            THEN <<Message("missing_skills",
                           SubSeq(missing_skills, 1,
                                  IF Len(missing_skills) < MAX_LISTED
                                  THEN Len(missing_skills) ELSE MAX_LISTED))>>
            ELSE <<>>)
        \o (IF score_results.detailed_scores.skills_match_rate < HIGHLIGHT_RATE
            THEN <<Message("highlight_skills", <<>>)>> ELSE <<>>)
        \o (IF overall_pct >= STRONG_MATCH_PCT
            THEN <<Message("strong_match", <<>>)>> ELSE <<>>)

----------------------------------------------------------------------------
(* The calculator called on two keyword bundles, as example.py does:         *)
(* calculate_weighted_score, then generate_recommendations.                  *)

SkillNames == {"python", "sql", "docker"}
TermNames == {"data", "team"}
OtherNames == {"agile"}

\* The texts handed to the calculator: a resume, a job description that
\* shares no term with it and one that shares a term
ScoreResumeTexts == {<<"r", "r">>}
ScoreJobTexts == {<<"c", "c">>, <<"r", "r", " ", "c", "c">>}

\* The bundles handed to the calculator, as extract_keywords builds them:
\* technical skills and TF-IDF keywords in any order, each once, and
\* all_keywords their union with the keywords of the third extraction method.
ScoreBundles ==
    { [technical_skills |-> t, tfidf_keywords |-> f,
       all_keywords |-> ListOf(ToSet(t) \cup ToSet(f) \cup o)]
      : t \in DistinctListsUpTo(SkillNames, MaxKw),
        f \in DistinctListsUpTo(TermNames, MaxKw),
        o \in SUBSET OtherNames }

InitScore ==
    /\ pc = "score"
    /\ hash_seed \in HashSeeds
    /\ use_spacy = FALSE
    /\ nlp = "None"
    /\ resume_text \in ScoreResumeTexts
    /\ job_description \in ScoreJobTexts
    /\ resume_keywords \in ScoreBundles
    /\ job_keywords \in ScoreBundles
    /\ overlap = None
    /\ similarity_results = None
    /\ recommendations = None
    /\ results = None
    /\ preprocessed_text = None
    /\ RagUnused
    /\ HiringUnused

\* similarity_calculator.calculate_weighted_score(resume_text, job_description,
\* resume_keywords, job_keywords)
CalculateScore ==
    /\ pc = "score"
    /\ \E text_similarity \in cosine_similarity_score(resume_text, job_description) :
       \E r \in calculate_weighted_score(text_similarity, resume_keywords, job_keywords, hash_seed) :
          /\ similarity_results' = r
          /\ pc' = IF Raised(r) THEN "raised" ELSE "recommend"
    /\ UNCHANGED <<preprocessed_text, rag_vars, hiring_vars, hash_seed, use_spacy, nlp, resume_text, job_description, resume_keywords,
                   job_keywords, overlap, recommendations, results>>

\* similarity_calculator.generate_recommendations(similarity_results)
GenerateRecommendations ==
    /\ pc = "recommend"
    /\ recommendations' = generate_recommendations(similarity_results)
    /\ pc' = "compile"
    /\ UNCHANGED <<preprocessed_text, rag_vars, hiring_vars, hash_seed, use_spacy, nlp, resume_text, job_description, resume_keywords,
                   job_keywords, overlap, similarity_results, results>>

NextScore == CalculateScore \/ GenerateRecommendations

SpecScore == InitScore /\ [][NextScore]_vars

----------------------------------------------------------------------------
(* The same two calls on bundles with many technical skills *)

SkillPool == <<"python", "sql", "docker", "aws", "git", "java", "rust", "go">>

\* The first k skills of the pool
PoolPrefix(k) == SubSeq(SkillPool, 1, IF k < Len(SkillPool) THEN k ELSE Len(SkillPool))

\* Bundles whose technical skills are the first skills of the pool, with or
\* without one TF-IDF keyword
RecommendBundles ==
    { [technical_skills |-> PoolPrefix(k), tfidf_keywords |-> f,
       all_keywords |-> ListOf(ToSet(PoolPrefix(k)) \cup ToSet(f))]
      : k \in 0..MaxSkills, f \in DistinctListsUpTo({"data"}, 1) }

InitRecommend ==
    /\ pc = "score"
    /\ hash_seed \in HashSeeds
    /\ use_spacy = FALSE
    /\ nlp = "None"
    /\ resume_text \in ScoreResumeTexts
    /\ job_description \in ScoreJobTexts
    /\ resume_keywords \in RecommendBundles
    /\ job_keywords \in RecommendBundles
    /\ overlap = None
    /\ similarity_results = None
    /\ recommendations = None
    /\ results = None
    /\ preprocessed_text = None
    /\ RagUnused
    /\ HiringUnused

SpecRecommend == InitRecommend /\ [][NextScore]_vars

----------------------------------------------------------------------------
(* calculate_weighted_score called again with the arguments of an earlier call *)

\* What a later call with the same arguments returns in a process with this
\* hash seed.  SimilarityCalculator has no field, so nothing of the earlier
\* call is left but its result.  The vectorizer and the float arithmetic
\* repeat themselves on equal arguments: the later call has the text
\* similarity and the rounded scores of the earlier one.
RepeatedResults(seed) ==
    { r \in calculate_weighted_score(similarity_results.detailed_scores.text_similarity,
                                     resume_keywords, job_keywords, seed) :
        /\ r.overall_score = similarity_results.overall_score
        /\ r.overall_percentage = similarity_results.overall_percentage }

\* A second call in the same interpreter process
CalculateAgain ==
    /\ pc = "recommend"
    /\ similarity_results' \in RepeatedResults(hash_seed)
    /\ UNCHANGED <<preprocessed_text, rag_vars, hiring_vars, pc, hash_seed, use_spacy, nlp, resume_text, job_description,
                   resume_keywords, job_keywords, overlap, recommendations, results>>

\* A second call in another worker process, which has its own hash seed
CalculateOnOtherWorker ==
    /\ pc = "recommend"
    /\ hash_seed' \in HashSeeds \ {hash_seed}
    /\ similarity_results' \in RepeatedResults(hash_seed')
    /\ UNCHANGED <<preprocessed_text, rag_vars, hiring_vars, pc, use_spacy, nlp, resume_text, job_description,
                   resume_keywords, job_keywords, overlap, recommendations, results>>

NextRepeat == CalculateScore \/ CalculateAgain \/ CalculateOnOtherWorker

SpecRepeat == InitScore /\ [][NextRepeat]_vars

----------------------------------------------------------------------------
(* keyword_overlap_score called on two keyword lists *)

KeywordNames == SkillNames \cup TermNames

InitOverlap ==
    /\ pc = "overlap"
    /\ hash_seed \in HashSeeds
    /\ use_spacy = FALSE
    /\ nlp = "None"
    /\ resume_text = None
    /\ job_description = None
    /\ resume_keywords \in ListsUpTo(KeywordNames, MaxKw)
    /\ job_keywords \in ListsUpTo(KeywordNames, MaxKw)
    /\ overlap = None
    /\ similarity_results = None
    /\ recommendations = None
    /\ results = None
    /\ preprocessed_text = None
    /\ RagUnused
    /\ HiringUnused

\* keyword_overlap_score(resume_keywords, job_keywords)
KeywordOverlap ==
    /\ pc = "overlap"
    /\ overlap' = keyword_overlap_score(resume_keywords, job_keywords, hash_seed)
    /\ pc' = IF Raised(overlap') THEN "raised" ELSE "done"
    /\ UNCHANGED <<preprocessed_text, rag_vars, hiring_vars, hash_seed, use_spacy, nlp, resume_text, job_description, resume_keywords,
                   job_keywords, similarity_results, recommendations, results>>

NextOverlap == KeywordOverlap

SpecOverlap == InitOverlap /\ [][NextOverlap]_vars

----------------------------------------------------------------------------
(* extract_keywords called on one text *)

Texts(n) == ListsUpTo(Alphabet, n)

InitExtract ==
    /\ pc = "extract_job"
    /\ hash_seed \in HashSeeds
    /\ \E use_spacy_arg \in BOOLEAN, model_installed \in BOOLEAN :
          LET self == KeywordExtractorInit(use_spacy_arg, model_installed)
          IN  use_spacy = self.use_spacy /\ nlp = self.nlp
    /\ resume_text = None
    /\ job_description \in Texts(MaxLen)
    /\ resume_keywords = None
    /\ job_keywords = None
    /\ overlap = None
    /\ similarity_results = None
    /\ recommendations = None
    /\ results = None
    /\ preprocessed_text = None
    /\ RagUnused
    /\ HiringUnused

\* job_keywords = self.keyword_extractor.extract_keywords(job_description)
ExtractJobKeywords ==
    /\ pc = "extract_job"
    /\ \E out \in extract_keywords(use_spacy, nlp, job_description, TOP_N, hash_seed) :
          IF Raised(out)
          THEN pc' = "raised" /\ job_keywords' = job_keywords
          ELSE pc' = "score" /\ job_keywords' = out.value
    /\ UNCHANGED <<preprocessed_text, rag_vars, hiring_vars, hash_seed, use_spacy, nlp, resume_text, job_description, resume_keywords,
                   overlap, similarity_results, recommendations, results>>

NextExtract == ExtractJobKeywords

SpecExtract == InitExtract /\ [][NextExtract]_vars

----------------------------------------------------------------------------
(* preprocess_text called on one text *)

\* The characters of the texts handed to preprocess_text: two kinds of
\* whitespace, a punctuation mark, an upper-case and a lower-case letter, a
\* digit and a kept special character
PreprocessAlphabet == {" ", "\t", ".", "R", "r", "7", "+"}

InitPreprocess ==
    /\ pc = "preprocess"
    /\ PipelineUnused
    /\ job_description \in ListsUpTo(PreprocessAlphabet, MaxPreLen)
    /\ preprocessed_text = None
    /\ RagUnused
    /\ HiringUnused

\* self.preprocess_text(text)
Preprocess ==
    /\ pc = "preprocess"
    /\ preprocessed_text' = preprocess_text(job_description)
    /\ pc' = "preprocessed"
    /\ UNCHANGED <<pipeline_vars, rag_vars, hiring_vars>>

NextPreprocess == Preprocess

SpecPreprocess == InitPreprocess /\ [][NextPreprocess]_vars

----------------------------------------------------------------------------
(* ATSPipeline.analyze(resume_pdf_path, job_description) *)

RECURSIVE Strip(_)
\* str.strip()
Strip(text) ==
    IF text = <<>> THEN text
    ELSE IF IsSpace(text[1]) THEN Strip(Tail(text))
    ELSE IF IsSpace(text[Len(text)]) THEN Strip(SubSeq(text, 1, Len(text) - 1))
    ELSE text

PdfError == [raised |-> "Exception"]

\* What pdf_extractor.extract_text(resume_pdf_path) yields: the stripped text
\* of the pages, or an exception (no such file, an unreadable PDF).  The PDF
\* reader is not modelled: any text may come back.
extract_text == {PdfError} \cup {Ok(Strip(text)) : text \in Texts(MaxDocLen)}

Init ==
    /\ pc = "extract_text"
    /\ hash_seed \in HashSeeds
    /\ \E use_spacy_arg \in BOOLEAN, model_installed \in BOOLEAN :
          LET self == KeywordExtractorInit(use_spacy_arg, model_installed)
          IN  use_spacy = self.use_spacy /\ nlp = self.nlp
    /\ resume_text = None
    /\ job_description \in Texts(MaxDocLen)
    /\ resume_keywords = None
    /\ job_keywords = None
    /\ overlap = None
    /\ similarity_results = None
    /\ recommendations = None
    /\ results = None
    /\ preprocessed_text = None
    /\ RagUnused
    /\ HiringUnused

\* (variant: the test `if not resume_text` is left out)
ExtractTextNoEmptyCheck ==
    /\ pc = "extract_text"
    /\ \E out \in extract_text :
          IF Raised(out)
          THEN /\ results' = [error |-> "Error reading PDF", success |-> FALSE]
               /\ pc' = "returned"
               /\ resume_text' = resume_text
          ELSE /\ resume_text' = out.value
               /\ pc' = "extract_resume"
               /\ results' = results
    /\ UNCHANGED <<preprocessed_text, rag_vars, hiring_vars, hash_seed, use_spacy, nlp, job_description, resume_keywords, job_keywords,
                   overlap, similarity_results, recommendations>>

\* Step 1: resume_text = extract_text(resume_pdf_path), inside try/except;
\* an empty text and an exception both return an error record
ExtractText ==
    /\ pc = "extract_text"
    /\ \E out \in extract_text :
          IF Raised(out)
          THEN /\ results' = [error |-> "Error reading PDF", success |-> FALSE]
               /\ pc' = "returned"
               /\ resume_text' = resume_text
          ELSE IF out.value = <<>>
          THEN /\ results' = [error |-> "Failed to extract text from resume PDF",
                              success |-> FALSE]
               /\ pc' = "returned"
               /\ resume_text' = out.value
          ELSE /\ resume_text' = out.value
               /\ pc' = "extract_resume"
               /\ results' = results
    /\ UNCHANGED <<preprocessed_text, rag_vars, hiring_vars, hash_seed, use_spacy, nlp, job_description, resume_keywords, job_keywords,
                   overlap, similarity_results, recommendations>>

\* Step 2: resume_keywords = self.keyword_extractor.extract_keywords(resume_text)
ExtractResumeKeywords ==
    /\ pc = "extract_resume"
    /\ \E out \in extract_keywords(use_spacy, nlp, resume_text, TOP_N, hash_seed) :
          IF Raised(out)
          THEN pc' = "raised" /\ resume_keywords' = resume_keywords
          ELSE pc' = "extract_job" /\ resume_keywords' = out.value
    /\ UNCHANGED <<preprocessed_text, rag_vars, hiring_vars, hash_seed, use_spacy, nlp, resume_text, job_description, job_keywords,
                   overlap, similarity_results, recommendations, results>>

\* Compile complete results and return them
Compile ==
    /\ pc = "compile"
    /\ results' =
         [success |-> TRUE,
          resume_analysis |->
              [text_length |-> Len(resume_text),
               keywords |-> resume_keywords,
               technical_skills |-> Get(resume_keywords, "technical_skills")],
          job_analysis |->
              [text_length |-> Len(job_description),
               keywords |-> job_keywords,
               technical_skills |-> Get(job_keywords, "technical_skills")],
          similarity_scores |-> similarity_results,
          recommendations |-> recommendations]
    /\ pc' = "returned"
    /\ UNCHANGED <<preprocessed_text, rag_vars, hiring_vars, hash_seed, use_spacy, nlp, resume_text, job_description, resume_keywords,
                   job_keywords, overlap, similarity_results, recommendations>>

Next ==
    \/ ExtractText
    \/ ExtractResumeKeywords
    \/ ExtractJobKeywords
    \/ CalculateScore
    \/ GenerateRecommendations
    \/ Compile

Spec == Init /\ [][Next]_vars

----------------------------------------------------------------------------
(* RAGSkillsExtractor *)

\* str.isdigit()
IsDigit(text) == text # <<>> /\ \A i \in 1..Len(text) : text[i] = "7"

RECURSIVE Unique(_)
\* Series.unique(): the values in the order of their first appearance
Unique(list) ==
    IF list = <<>> THEN <<>>
    ELSE LET init == Unique(SubSeq(list, 1, Len(list) - 1))
             last == list[Len(list)]
         IN  IF last \in ToSet(init) THEN init ELSE Append(init, last)

\* shortest skill that is kept
MIN_SKILL_LEN == 2

\* The cleaning loop: each skill is stripped, and kept when it has at least
\* two characters and is not a number
CleanSkills(skills) ==
    SelectSeq([i \in 1..Len(skills) |-> Strip(skills[i])],
              LAMBDA skill_str : Len(skill_str) >= MIN_SKILL_LEN /\ ~IsDigit(skill_str))

\* _load_skills_from_csv: self.skills_list from the first column of the file
load_skills_from_csv(csv) == CleanSkills(Unique(csv))

\* The embedding models an extractor can be configured with: the default of
\* __init__ and another one
DEFAULT_EMBEDDING_MODEL == "all-MiniLM-L6-v2"
EmbeddingModels == {DEFAULT_EMBEDDING_MODEL, "all-mpnet-base-v2"}

\* self.model.encode(texts): one row per text, a function of the model and of
\* the text alone
encode_by(embedding_model, texts) ==
    [i \in 1..Len(texts) |-> [emb |-> texts[i], model |-> embedding_model]]

\* encode of the default model
encode(texts) == encode_by(DEFAULT_EMBEDDING_MODEL, texts)

\* _create_embeddings: np.vstack of the encoded batches; np.vstack([]) raises
\* ValueError when there is no batch, that is when skills_list is empty
create_embeddings(self_embedding_model_name, self_skills_list) ==
    IF self_skills_list = <<>> THEN ValueError
    ELSE Ok(encode_by(self_embedding_model_name, self_skills_list))

\* The file at embeddings_cache_path.
\*   absent     there is no file
\*   partial    opened for writing and not yet written to the end
\*   corrupt    not a pickle
\*   no_skills  a pickled dict with 'embeddings' and without 'skills'
\*   full       a pickled dict with 'skills' and 'embeddings'
AbsentFile == [state |-> "absent", skills |-> <<>>, embeddings |-> <<>>]
PartialFile == [state |-> "partial", skills |-> <<>>, embeddings |-> <<>>]
CorruptFile == [state |-> "corrupt", skills |-> <<>>, embeddings |-> <<>>]
NoSkillsFile(embeddings) == [state |-> "no_skills", skills |-> <<>>, embeddings |-> embeddings]
\* pickle.dump({'skills': ..., 'embeddings': ...}, f)
FullFile(skills, embeddings) == [state |-> "full", skills |-> skills, embeddings |-> embeddings]

\* (variant: the cache is taken for valid when it has as many skills)
CacheMatchesByLength(cached_skills, self_skills_list) == Len(cached_skills) = Len(self_skills_list)

\* cached_skills == self.skills_list
CacheMatches(cached_skills, self_skills_list) == cached_skills = self_skills_list

\* A RAGSkillsExtractor whose constructor has not yet run a step.
\*   load: how the cache was found ("absent", "hit", "mismatch", "error")
\*   save: how _save_embeddings ended ("ok", "failed")
NewExtractorWith(embedding_model) ==
    [pc |-> "init", embedding_model_name |-> embedding_model, skills_list |-> None,
     skill_embeddings |-> None, load |-> "none", save |-> "none"]

\* RAGSkillsExtractor(skills_csv_path): the default embedding model
NewExtractor == NewExtractorWith(DEFAULT_EMBEDDING_MODEL)

\* __init__: _initialize_model and _load_skills_from_csv
LoadSkills(w) ==
    /\ extractors[w].pc = "init"
    /\ extractors' = [extractors EXCEPT ![w].skills_list = load_skills_from_csv(skills_csv),
                                        ![w].pc = "exists"]
    /\ UNCHANGED <<pc, pipeline_vars, preprocessed_text, hiring_vars, skills_csv, cache_file, detected_skills>>

\* _load_or_create_embeddings: self.embeddings_cache_path.exists()
CheckCache(w) ==
    /\ extractors[w].pc = "exists"
    /\ extractors' =
         IF cache_file.state = "absent"
         THEN [extractors EXCEPT ![w].load = "absent", ![w].pc = "create"]
         ELSE [extractors EXCEPT ![w].pc = "load"]
    /\ UNCHANGED <<pc, pipeline_vars, preprocessed_text, hiring_vars, skills_csv, cache_file, detected_skills>>

\* (variant: no handler around the reading of the cache)
LoadCacheUnguarded(w) ==
    /\ extractors[w].pc = "load"
    /\ \E readable \in BOOLEAN :
         extractors' =
           IF ~readable \/ cache_file.state \in {"partial", "corrupt", "no_skills"}
           THEN [extractors EXCEPT ![w].load = "error", ![w].pc = "raised"]
           ELSE IF CacheMatches(cache_file.skills, extractors[w].skills_list)
           THEN [extractors EXCEPT ![w].skill_embeddings = cache_file.embeddings,
                                   ![w].load = "hit", ![w].pc = "done"]
           ELSE [extractors EXCEPT ![w].skill_embeddings = cache_file.embeddings,
                                   ![w].load = "mismatch", ![w].pc = "create"]
    /\ UNCHANGED <<pc, pipeline_vars, preprocessed_text, hiring_vars, skills_csv, cache_file, detected_skills>>

\* _load_or_create_embeddings: the try block.  open or pickle.load can fail on
\* any file; self.skill_embeddings is assigned before cache_data['skills']
\* is read and before the lists are compared.
LoadCache(w) ==
    /\ extractors[w].pc = "load"
    /\ \E readable \in BOOLEAN :
         extractors' =
           IF ~readable \/ cache_file.state \in {"partial", "corrupt"}
           THEN [extractors EXCEPT ![w].load = "error", ![w].pc = "create"]
           ELSE IF cache_file.state = "no_skills"
           THEN [extractors EXCEPT ![w].skill_embeddings = cache_file.embeddings,
                                   ![w].load = "error", ![w].pc = "create"]
           ELSE IF CacheMatches(cache_file.skills, extractors[w].skills_list)
           THEN [extractors EXCEPT ![w].skill_embeddings = cache_file.embeddings,
                                   ![w].load = "hit", ![w].pc = "done"]
           ELSE [extractors EXCEPT ![w].skill_embeddings = cache_file.embeddings,
                                   ![w].load = "mismatch", ![w].pc = "create"]
    /\ UNCHANGED <<pc, pipeline_vars, preprocessed_text, hiring_vars, skills_csv, cache_file, detected_skills>>

\* _load_or_create_embeddings: self._create_embeddings()
CreateEmbeddings(w) ==
    /\ extractors[w].pc = "create"
    /\ LET created == create_embeddings(extractors[w].embedding_model_name,
                                        extractors[w].skills_list)
       IN  extractors' =
             IF Raised(created)
             THEN [extractors EXCEPT ![w].pc = "raised"]
             ELSE [extractors EXCEPT ![w].skill_embeddings = created.value, ![w].pc = "save"]
    /\ UNCHANGED <<pc, pipeline_vars, preprocessed_text, hiring_vars, skills_csv, cache_file, detected_skills>>

\* _save_embeddings: open(self.embeddings_cache_path, 'wb') either fails and
\* leaves the file alone, or empties the file
OpenCacheForWriting(w) ==
    /\ extractors[w].pc = "save"
    /\ \/ /\ extractors' = [extractors EXCEPT ![w].save = "failed", ![w].pc = "done"]
          /\ UNCHANGED cache_file
       \/ /\ extractors' = [extractors EXCEPT ![w].pc = "dump"]
          /\ cache_file' = PartialFile
    /\ UNCHANGED <<pc, pipeline_vars, preprocessed_text, hiring_vars, skills_csv, detected_skills>>

\* _save_embeddings: pickle.dump(cache_data, f) and the end of the with block.
\* A dump that fails leaves the file partly written.  While another extractor
\* has the file open for writing, the one that emptied the file last has not
\* yet rewritten what the other wrote before: the file can still be incomplete.
DumpCache(w) ==
    /\ extractors[w].pc = "dump"
    /\ \/ /\ extractors' = [extractors EXCEPT ![w].save = "failed", ![w].pc = "done"]
          /\ cache_file' = PartialFile
       \/ /\ extractors' = [extractors EXCEPT ![w].save = "ok", ![w].pc = "done"]
          /\ \/ cache_file' = FullFile(extractors[w].skills_list, extractors[w].skill_embeddings)
             \/ /\ \E other \in DOMAIN extractors \ {w} : extractors[other].pc = "dump"
                /\ cache_file' = PartialFile
    /\ UNCHANGED <<pc, pipeline_vars, preprocessed_text, hiring_vars, skills_csv, detected_skills>>

\* re.sub(r'[^\w\s\.\-\+\#\(\)\/\&]', ' ', text)
SubNonSkill(text) ==
    [i \in 1..Len(text) |->
        IF IsWordChar(text[i]) \/ IsSpace(text[i])
           \/ text[i] \in {".", "-", "+", "#", "(", ")", "/", "&"}
        THEN text[i] ELSE " "]

\* _extract_ngrams(text, n_range=(1, 5))
N_RANGE_MIN == 1
N_RANGE_MAX == 5

RECURSIVE NGramsFrom(_, _, _)
\* The two loops of _extract_ngrams, from n and i on: an n-gram of one
\* character is left out
NGramsFrom(words, n, i) ==
    IF n > N_RANGE_MAX THEN <<>>
    ELSE IF i + n - 1 > Len(words) THEN NGramsFrom(words, n + 1, 1)
    ELSE LET ngram == Join(SubSeq(words, i, i + n - 1))
         IN  (IF Len(ngram) > 1 THEN <<ngram>> ELSE <<>>) \o NGramsFrom(words, n, i + 1)

extract_ngrams(text) == NGramsFrom(Split(SubNonSkill(text)), N_RANGE_MIN, 1)

\* The cosine similarities of two different texts' embeddings that are told apart
SimLevels == {4000, 8000}

\* The pairs (n-gram, embedded text) whose similarity the embedding model decides
SimilarityPairs(text, skill_embeddings) ==
    {p \in ToSet(extract_ngrams(text)) \X {skill_embeddings[idx].emb : idx \in 1..Len(skill_embeddings)} :
        p[1] # p[2]}

\* cosine_similarity of the rows of an n-gram and of a skill: 1 for the
\* same text, else what the embedding model gives
Similarity(ngram, row, similarities) ==
    IF ngram = row.emb THEN Unit ELSE similarities[<<ngram, row.emb>>]

\* np.max of a column
MaxOf(S) == CHOOSE m \in S : \A x \in S : x <= m

RECURSIVE SortDetected(_)
\* detected_skills.sort(key=lambda x: x[1], reverse=True): the sort is stable,
\* pairs of equal score keep their order
SortDetected(pairs) ==
    IF pairs = <<>> THEN <<>>
    ELSE LET first == CHOOSE i \in 1..Len(pairs) :
                          /\ \A j \in 1..Len(pairs) : pairs[j].score <= pairs[i].score
                          /\ \A j \in 1..(i - 1) : pairs[j].score < pairs[i].score
         IN  <<pairs[first]>>
             \o SortDetected(SubSeq(pairs, 1, first - 1) \o SubSeq(pairs, first + 1, Len(pairs)))

\* default threshold of extract_skills_rag, in units of 1/Unit
DEFAULT_THRESHOLD == 6000

\* score >= threshold
AboveThreshold(score, threshold) == score >= threshold

\* extract_skills_rag(text, threshold, top_k, return_scores); top_k = 0 stands
\* for None (the code tests "if top_k")
extract_skills_rag(self_skills_list, self_skill_embeddings, text, threshold, top_k, return_scores, similarities) ==
    LET ngrams == extract_ngrams(text)
        max_similarities ==
            [idx \in 1..Len(self_skill_embeddings) |->
                MaxOf({Similarity(ngrams[k], self_skill_embeddings[idx], similarities) :
                          k \in 1..Len(ngrams)})]
        above == SelectSeq([idx \in 1..Len(self_skill_embeddings) |->
                               [skill |-> self_skills_list[idx], score |-> max_similarities[idx]]],
                           LAMBDA p : AboveThreshold(p.score, threshold))
        sorted == SortDetected(above)
        detected == IF top_k # 0 THEN FirstN(sorted, top_k) ELSE sorted
    IN  IF ngrams = <<>> THEN <<>>
        ELSE IF return_scores THEN detected
        ELSE [i \in 1..Len(detected) |-> detected[i].skill]

----------------------------------------------------------------------------
(* One RAGSkillsExtractor: its construction, then calls of extract_skills_rag *)

\* most rows of the skills CSV file
MaxRows == 2

\* The cells of the first column of the CSV file: two skills, a skill with
\* trailing whitespace (read_csv keeps it), a number and a single character
CsvCells == {<<"r", "r">>, <<"r", "r", " ">>, <<"c", "c">>, <<"7", "7">>, <<"r">>}

\* The skill list of an older CSV file
StaleSkills == << <<"r", "c">> >>

\* The cache files a constructor can find: none, an unreadable one, one that
\* lacks a field, one written for another skill list and (when the list is
\* not empty) one written for this skill list
CacheFilesFor(skills_list) ==
    {AbsentFile, CorruptFile, NoSkillsFile(encode(StaleSkills)),
     FullFile(StaleSkills, encode(StaleSkills))}
    \cup (IF skills_list = <<>> THEN {} ELSE {FullFile(skills_list, encode(skills_list))})

\* The texts handed to extract_skills_rag
RagTexts == {<<>>, <<"r">>, <<"r", "r">>, <<"r", "r", "!", "c", "c">>}

\* The thresholds handed to extract_skills_rag
Thresholds == {DEFAULT_THRESHOLD, 8000}

\* The top_k handed to extract_skills_rag (0: None)
TopKs == {0, 1}

InitRagWith(workers, csvs) ==
    /\ pc = "rag"
    /\ PipelineUnused
    /\ job_description = None
    /\ preprocessed_text = None
    /\ skills_csv \in csvs
    /\ extractors = [w \in workers |-> NewExtractor]
    /\ detected_skills = None
    /\ HiringUnused

\* The one worker
RagWorkers == {1}

InitRag ==
    /\ InitRagWith(RagWorkers, ListsUpTo(CsvCells, MaxRows))
    /\ cache_file \in CacheFilesFor(load_skills_from_csv(skills_csv))

\* extractor.extract_skills_rag(text, threshold, top_k, return_scores); the
\* first call on the extractor is followed (a call changes nothing of it)
ExtractSkillsRag(w) ==
    /\ extractors[w].pc = "done"
    /\ detected_skills = None
    /\ \E text \in RagTexts, threshold \in Thresholds, top_k \in TopKs, return_scores \in BOOLEAN :
         \E similarities \in [SimilarityPairs(text, extractors[w].skill_embeddings) -> SimLevels] :
            detected_skills' =
                [worker |-> w, text |-> text, threshold |-> threshold, top_k |-> top_k,
                 return_scores |-> return_scores, similarities |-> similarities,
                 value |-> extract_skills_rag(extractors[w].skills_list,
                                              extractors[w].skill_embeddings, text, threshold,
                                              top_k, return_scores, similarities)]
    /\ UNCHANGED <<pc, pipeline_vars, preprocessed_text, hiring_vars, skills_csv, extractors, cache_file>>

NextRag ==
    \/ \E w \in RagWorkers : LoadSkills(w)
    \/ \E w \in RagWorkers : CheckCache(w)
    \/ \E w \in RagWorkers : LoadCache(w)
    \/ \E w \in RagWorkers : CreateEmbeddings(w)
    \/ \E w \in RagWorkers : OpenCacheForWriting(w)
    \/ \E w \in RagWorkers : DumpCache(w)
    \/ \E w \in RagWorkers : ExtractSkillsRag(w)

SpecRag == InitRag /\ [][NextRag]_vars

----------------------------------------------------------------------------
(* Two workers construct a RAGSkillsExtractor each, with the same CSV file
   and the same max_skills, hence the same cache file *)

CacheWorkers == {1, 2}

\* The CSV files of the workers
CacheCsvs == {<< <<"r", "r">> >>, << <<"r", "r">>, <<"c", "c">> >>}

\* No valid cache file exists: none, an unreadable one, or one written for
\* another skill list
InitCache ==
    /\ InitRagWith(CacheWorkers, CacheCsvs)
    /\ cache_file \in {AbsentFile, CorruptFile, FullFile(StaleSkills, encode(StaleSkills))}

NextCache ==
    \/ \E w \in CacheWorkers : LoadSkills(w)
    \/ \E w \in CacheWorkers : CheckCache(w)
    \/ \E w \in CacheWorkers : LoadCache(w)
    \/ \E w \in CacheWorkers : CreateEmbeddings(w)
    \/ \E w \in CacheWorkers : OpenCacheForWriting(w)
    \/ \E w \in CacheWorkers : DumpCache(w)

SpecCache == InitCache /\ [][NextCache]_vars

----------------------------------------------------------------------------
(* One RAGSkillsExtractor constructed where an earlier instance, with its own
   embedding model and its own CSV file, has left a cache file (the file
   name depends on max_skills alone) *)

\* The cache files earlier instances have written, and none
EarlierCacheFiles ==
    {AbsentFile}
    \cup {FullFile(load_skills_from_csv(csv), encode_by(model, load_skills_from_csv(csv))) :
             csv \in {c \in ListsUpTo(CsvCells, MaxRows) : load_skills_from_csv(c) # <<>>},
             model \in EmbeddingModels}

InitModels ==
    /\ pc = "rag"
    /\ PipelineUnused
    /\ job_description = None
    /\ preprocessed_text = None
    /\ skills_csv \in ListsUpTo(CsvCells, MaxRows)
    /\ \E model \in EmbeddingModels : extractors = [w \in RagWorkers |-> NewExtractorWith(model)]
    /\ cache_file \in EarlierCacheFiles
    /\ detected_skills = None
    /\ HiringUnused

NextModels ==
    \/ \E w \in RagWorkers : LoadSkills(w)
    \/ \E w \in RagWorkers : CheckCache(w)
    \/ \E w \in RagWorkers : LoadCache(w)
    \/ \E w \in RagWorkers : CreateEmbeddings(w)
    \/ \E w \in RagWorkers : OpenCacheForWriting(w)
    \/ \E w \in RagWorkers : DumpCache(w)

SpecModels == InitModels /\ [][NextModels]_vars

----------------------------------------------------------------------------
(* HiringPlatformDB.  Scores are in units of 0.01 percent. *)

\* A value or None, as a list of at most one element
Some(v) == <<v>>
Nothing == <<>>

\* create_application: the INSERT fails with IntegrityError on
\* UNIQUE(job_id, user_id) and the method returns None, written 0 (ids start
\* at 1 and the caller tests "if application_id"); else the row is added with
\* status 'pending' and the next AUTOINCREMENT id (no row is ever deleted).
AlreadyApplied(applications, job_id, user_id) ==
    \E i \in 1..Len(applications) :
        applications[i].job_id = job_id /\ applications[i].user_id = user_id

create_application(applications, job_id, user_id, match_score, matched_skills) ==
    IF AlreadyApplied(applications, job_id, user_id)
    THEN [application_id |-> 0, applications |-> applications]
    ELSE [application_id |-> Len(applications) + 1,
          applications |-> Append(applications,
              [application_id |-> Len(applications) + 1, job_id |-> job_id,
               user_id |-> user_id, match_score |-> match_score,
               matched_skills |-> matched_skills, status |-> "pending"])]

\* update_application_status(application_id, status)
update_application_status(applications, application_id, status) ==
    [i \in 1..Len(applications) |->
        IF applications[i].application_id = application_id
        THEN [applications[i] EXCEPT !.status = status] ELSE applications[i]]

\* update_user_resume(user_id, resume_path, ...)
update_user_resume(users, user_id, resume_path) ==
    [u \in DOMAIN users |->
        IF u = user_id THEN [users[u] EXCEPT !.resume_path = resume_path] ELSE users[u]]

\* (variant: the rows are not filtered by score)
ScoreAtLeastAlways(match_score, min_score) == TRUE

\* AND a.match_score >= ?  (added when min_score is not None)
ScoreAtLeast(match_score, min_score) ==
    min_score = Nothing \/ match_score >= min_score[1]

\* The rows of get_job_applications before ORDER BY: the applications of the
\* job joined with their users, at or over min_score
SelectedApplications(applications, users, job_id, min_score) ==
    {applications[i] : i \in {k \in 1..Len(applications) :
        /\ applications[k].job_id = job_id
        /\ applications[k].user_id \in DOMAIN users
        /\ ScoreAtLeast(applications[k].match_score, min_score)}}

\* ORDER BY a.match_score DESC: every order of the rows with the scores not
\* increasing (the order of rows of equal score is not fixed by the query)
OrderedByScore(rows) ==
    {l \in [1..Cardinality(rows) -> rows] :
        /\ \A i, j \in 1..Cardinality(rows) : l[i] = l[j] => i = j
        /\ \A i \in 1..(Cardinality(rows) - 1) : l[i].match_score >= l[i + 1].match_score}

\* get_job_applications(job_id, min_score, limit=...): the lists it can return
get_job_applications(applications, users, job_id, min_score, limit) ==
    {FirstN(l, limit) :
        l \in OrderedByScore(SelectedApplications(applications, users, job_id, min_score))}

----------------------------------------------------------------------------
(* HiringMatchingEngine *)

KeyError == [raised |-> "KeyError"]
TypeError == [raised |-> "TypeError"]

\* get_ranked_candidates(job_id, min_score, limit): what it can yield
get_ranked_candidates(jobs, users, applications, job_id, min_score, limit) ==
    IF job_id \notin DOMAIN jobs THEN {ValueError}
    ELSE LET effective == IF min_score = Nothing
                          THEN Some(jobs[job_id].minimum_score) ELSE min_score
         IN  {Ok(l) : l \in get_job_applications(applications, users, job_id, effective, limit)}

\* _get_recommendation: 80 percent and the margin of 10 points over the threshold
EXCELLENT_SCORE == 8000
GOOD_MARGIN == 1000

\* _get_recommendation(match_score, threshold); a message is named by its branch
get_recommendation(match_score, threshold) ==
    IF match_score >= EXCELLENT_SCORE THEN "excellent"
    ELSE IF match_score >= threshold + GOOD_MARGIN THEN "good"
    ELSE IF match_score >= threshold THEN "meets_minimum"
    ELSE "below_threshold"

\* The parameters of ATSPipeline.analyze, and the keyword arguments
\* process_application passes besides the two positional ones
AnalyzeParameters == {"resume_pdf_path", "job_description", "verbose"}
AnalyzeKeywords == {"verbose", "analyze_format"}

\* The call self.ats_pipeline.analyze(...): TypeError for a keyword argument
\* analyze does not take; else the analyses the pipeline can give for a
\* readable resume, each an overall_percentage with its matched skills
AnalysisScores == {4000, 9500}
AnalysisSkills == {<<>>, <<"python">>}
call_analyze(keywords) ==
    IF ~(keywords \subseteq AnalyzeParameters) THEN {TypeError}
    ELSE {Ok([overall_percentage |-> score, matched_skills |-> skills]) :
             score \in AnalysisScores, skills \in AnalysisSkills}

\* What process_application leaves: what it yields, and the two tables
Left(outcome, applications, users) ==
    [outcome |-> outcome, applications |-> applications, users |-> users]

\* process_application from the database insert on (lines 132-176)
store_application(jobs, users, applications, user_id, job_id, resume_pdf_path, ats_results) ==
    LET overall_match == ats_results.overall_percentage
        created == create_application(applications, job_id, user_id, overall_match,
                                      ats_results.matched_skills)
    IN  IF created.application_id = 0
        THEN Left(Ok([error |-> "You have already applied to this job"]), applications, users)
        ELSE Left(Ok([application_id |-> created.application_id,
                      match_score |-> overall_match,
                      matched_skills |-> ats_results.matched_skills,
                      meets_threshold |-> overall_match >= jobs[job_id].minimum_score,
                      recommendation |-> get_recommendation(overall_match,
                                                            jobs[job_id].minimum_score)]),
                  created.applications,
                  update_user_resume(users, user_id, resume_pdf_path))

\* process_application(user_id, job_id, resume_pdf_path): everything it can
\* leave.  analyze_pdf gives a dict without 'structure_analysis' for a file it
\* cannot read (KeyError at line 81); the LLM extraction may raise ValueError.
process_application(jobs, users, applications, user_id, job_id, resume_pdf_path, readable) ==
    IF job_id \notin DOMAIN jobs THEN {Left(ValueError, applications, users)}
    ELSE IF jobs[job_id].status # "active" THEN {Left(ValueError, applications, users)}
    ELSE IF user_id \notin DOMAIN users THEN {Left(ValueError, applications, users)}
    ELSE IF ~readable THEN {Left(KeyError, applications, users)}
    ELSE UNION {IF Raised(ats_results) THEN {Left(ats_results, applications, users)}
                ELSE {Left(ValueError, applications, users),
                      store_application(jobs, users, applications, user_id, job_id,
                                        resume_pdf_path, ats_results.value)} :
                   ats_results \in call_analyze(AnalyzeKeywords)}

\* The entry batch_apply appends for one job id
BatchEntry(job_id, outcome) ==
    IF Raised(outcome)
    THEN [job_id |-> job_id, status |-> "error", error |-> outcome.raised]
    ELSE IF "error" \notin DOMAIN outcome.value
    THEN [job_id |-> job_id, status |-> "success", match_score |-> outcome.value.match_score,
          meets_threshold |-> outcome.value.meets_threshold]
    ELSE [job_id |-> job_id, status |-> "failed", error |-> outcome.value.error]

\* key=lambda x: x.get('match_score', 0)
ScoreOrZero(x) == IF "match_score" \in DOMAIN x THEN x.match_score ELSE 0

RECURSIVE SortEntries(_)
\* results['applications'].sort(key=..., reverse=True): a stable sort
SortEntries(entries) ==
    IF entries = <<>> THEN <<>>
    ELSE LET first == CHOOSE i \in 1..Len(entries) :
                          /\ \A j \in 1..Len(entries) : ScoreOrZero(entries[j]) <= ScoreOrZero(entries[i])
                          /\ \A j \in 1..(i - 1) : ScoreOrZero(entries[j]) < ScoreOrZero(entries[i])
         IN  <<entries[first]>>
             \o SortEntries(SubSeq(entries, 1, first - 1) \o SubSeq(entries, first + 1, Len(entries)))

RECURSIVE BatchFrom(_, _, _, _, _, _, _, _)
\* The loop of batch_apply from the i-th job id on: everything it can leave,
\* entries being the entries appended so far
BatchFrom(jobs, users, applications, user_id, job_ids, resume_pdf_path, readable, entries) ==
    IF Len(entries) = Len(job_ids)
    THEN {Left(Ok(entries), applications, users)}
    ELSE LET job_id == job_ids[Len(entries) + 1]
         IN  UNION {BatchFrom(jobs, left.users, left.applications, user_id, job_ids,
                              resume_pdf_path, readable,
                              Append(entries, BatchEntry(job_id, left.outcome))) :
                       left \in process_application(jobs, users, applications, user_id, job_id,
                                                    resume_pdf_path, readable)}

\* (variant: no try/except around process_application, so the loop ends
\* with the exception of the first job id)
batch_apply_uncaught(jobs, users, applications, user_id, job_ids, resume_pdf_path, readable) ==
    IF job_ids = <<>>
    THEN {Left(Ok([total_jobs |-> 0, successful_applications |-> 0,
                   failed_applications |-> 0, applications |-> <<>>]), applications, users)}
    ELSE {Left(left.outcome, left.applications, left.users) :
             left \in process_application(jobs, users, applications, user_id, job_ids[1],
                                          resume_pdf_path, readable)}

\* batch_apply(user_id, job_ids, resume_pdf_path): everything it can leave
batch_apply(jobs, users, applications, user_id, job_ids, resume_pdf_path, readable) ==
    {Left(Ok([total_jobs |-> Len(job_ids),
              successful_applications |->
                  Cardinality({i \in 1..Len(job_ids) : left.outcome.value[i].status = "success"}),
              failed_applications |->
                  Cardinality({i \in 1..Len(job_ids) : left.outcome.value[i].status # "success"}),
              applications |-> SortEntries(left.outcome.value)]),
          left.applications, left.users) :
        left \in BatchFrom(jobs, users, applications, user_id, job_ids, resume_pdf_path,
                           readable, <<>>)}

----------------------------------------------------------------------------
(* The hiring platform: the database behind one HiringMatchingEngine *)

\* Job and user ids: the last of each is of no row
ExistingJobs == {1, 2}
JobIds == {1, 2, 3}
ExistingUsers == {1, 2}
UserIds == {1, 2, 3}
MinimumScores == {5000, 9000}
ApplicationStatuses == {"pending", "shortlisted"}
ResumePaths == {"old.pdf", "new.pdf"}

\* The tables after create_job and create_user calls and no application
InitHiringWith(jobs) ==
    /\ pc = "hiring"
    /\ PipelineUnused
    /\ job_description = None
    /\ preprocessed_text = None
    /\ RagUnused
    /\ db_jobs \in jobs
    /\ db_users = [u \in ExistingUsers |-> [resume_path |-> "old.pdf"]]
    /\ db_applications = <<>>
    /\ engine_result = None

\* The last call was one of the engine.  What a call of the engine leaves
\* depends on the tables only, so a behaviour is calls of the database and
\* then one call of the engine.
EngineCalled ==
    /\ engine_result # None
    /\ engine_result.call \in {"get_ranked_candidates", "process_application", "batch_apply"}

\* The table is followed up to this many rows
MaxApplications == 2

\* db.create_application(job_id, user_id, match_score, ...) for a job and a
\* user of the tables
CreateApplication(job_id, user_id, match_score, matched_skills) ==
    LET created == create_application(db_applications, job_id, user_id, match_score,
                                      matched_skills)
    IN  /\ ~EngineCalled
        /\ Len(created.applications) <= MaxApplications
        /\ db_applications' = created.applications
        /\ engine_result' = [call |-> "create_application", job_id |-> job_id,
                             user_id |-> user_id, outcome |-> Ok(created.application_id)]
        /\ UNCHANGED <<pc, pipeline_vars, preprocessed_text, rag_vars, db_jobs, db_users>>

\* db.update_application_status(application_id, status)
UpdateApplicationStatus(application_id, status) ==
    /\ ~EngineCalled
    /\ application_id \in 1..Len(db_applications)
    /\ db_applications' = update_application_status(db_applications, application_id, status)
    /\ engine_result' = [call |-> "update_application_status"]
    /\ UNCHANGED <<pc, pipeline_vars, preprocessed_text, rag_vars, db_jobs, db_users>>

\* engine.get_ranked_candidates(job_id, min_score, limit)
GetRankedCandidates(job_id, min_score, limit) ==
    /\ ~EngineCalled
    /\ \E outcome \in get_ranked_candidates(db_jobs, db_users, db_applications, job_id,
                                            min_score, limit) :
           engine_result' = [call |-> "get_ranked_candidates", job_id |-> job_id,
                             min_score |-> min_score, limit |-> limit, outcome |-> outcome]
    /\ UNCHANGED <<pc, pipeline_vars, preprocessed_text, rag_vars, db_jobs, db_users,
                   db_applications>>

\* engine.process_application(user_id, job_id, resume_pdf_path)
ProcessApplication(user_id, job_id, readable) ==
    /\ ~EngineCalled
    /\ \E left \in process_application(db_jobs, db_users, db_applications, user_id, job_id,
                                       "new.pdf", readable) :
           /\ db_applications' = left.applications
           /\ db_users' = left.users
           /\ engine_result' = [call |-> "process_application", user_id |-> user_id,
                                job_id |-> job_id, readable |-> readable,
                                outcome |-> left.outcome]
    /\ UNCHANGED <<pc, pipeline_vars, preprocessed_text, rag_vars, db_jobs>>

\* engine.batch_apply(user_id, job_ids, resume_pdf_path)
BatchApply(user_id, job_ids, readable) ==
    /\ ~EngineCalled
    /\ \E left \in batch_apply(db_jobs, db_users, db_applications, user_id, job_ids,
                               "new.pdf", readable) :
           /\ db_applications' = left.applications
           /\ db_users' = left.users
           /\ engine_result' = [call |-> "batch_apply", user_id |-> user_id,
                                job_ids |-> job_ids, readable |-> readable,
                                outcome |-> left.outcome]
    /\ UNCHANGED <<pc, pipeline_vars, preprocessed_text, rag_vars, db_jobs>>

\* The arguments of the calls
MinScoreArguments == {Nothing, Some(0), Some(5000)}
Limits == {0, 1, 2}
MaxJobIds == 2
\* no more application ids than pairs of a job and a user
ApplicationIds == 1..(Cardinality(ExistingJobs) * Cardinality(ExistingUsers))
JobIdLists == UNION {[1..n -> JobIds] : n \in 0..MaxJobIds}

NextDb ==
    \/ \E job_id \in ExistingJobs, user_id \in ExistingUsers, match_score \in AnalysisScores :
           CreateApplication(job_id, user_id, match_score, <<"python">>)
    \/ \E application_id \in ApplicationIds, status \in ApplicationStatuses :
           UpdateApplicationStatus(application_id, status)
    \/ \E job_id \in JobIds, min_score \in MinScoreArguments, limit \in Limits :
           GetRankedCandidates(job_id, min_score, limit)

\* Two jobs, the first with either minimum score
InitDb ==
    InitHiringWith({[j \in ExistingJobs |->
                        [status |-> "active",
                         minimum_score |-> IF j = 1 THEN m ELSE 5000]] : m \in MinimumScores})

\* Direct use of the database, and the recruiter's ranking
SpecDb == InitDb /\ [][NextDb]_vars

NextApply ==
    \/ \E job_id \in ExistingJobs, user_id \in ExistingUsers, match_score \in AnalysisScores :
           CreateApplication(job_id, user_id, match_score, <<"python">>)
    \/ \E user_id \in UserIds, job_id \in JobIds, readable \in BOOLEAN :
           ProcessApplication(user_id, job_id, readable)
    \/ \E user_id \in UserIds, job_ids \in JobIdLists, readable \in BOOLEAN :
           BatchApply(user_id, job_ids, readable)

\* An active job with either minimum score and a closed one
InitApply ==
    InitHiringWith({[j \in ExistingJobs |->
                        [status |-> IF j = 1 THEN "active" ELSE "closed",
                         minimum_score |-> IF j = 1 THEN m ELSE 5000]] : m \in MinimumScores})

\* Candidates applying through the engine
SpecApply == InitApply /\ [][NextApply]_vars

----------------------------------------------------------------------------
(* _get_recommendation and the meets_threshold of the same result *)

Percents == {i * 500 : i \in 0..20}

InitRecommendation ==
    /\ pc = "hiring"
    /\ PipelineUnused
    /\ job_description = None
    /\ preprocessed_text = None
    /\ RagUnused
    /\ db_jobs = None
    /\ db_users = None
    /\ db_applications = None
    /\ engine_result \in [match_score : Percents, minimum_score : Percents, result : {Nothing}]

\* 'meets_threshold' and 'recommendation' of the result of process_application
GetRecommendation ==
    /\ engine_result.result = Nothing
    /\ engine_result' = [engine_result EXCEPT !.result =
           Some([meets_threshold |-> engine_result.match_score >= engine_result.minimum_score,
                 recommendation |-> get_recommendation(engine_result.match_score,
                                                       engine_result.minimum_score)])]
    /\ UNCHANGED <<pc, pipeline_vars, preprocessed_text, rag_vars, db_jobs, db_users,
                   db_applications>>

NextRecommendation == GetRecommendation

SpecRecommendation == InitRecommendation /\ [][NextRecommendation]_vars

----------------------------------------------------------------------------
(* Properties *)

\* calculate_weighted_score has returned a record
Scored == pc \in {"recommend", "compile"}

ResumeTfidf == Get(resume_keywords, "tfidf_keywords")
JobTfidf == Get(job_keywords, "tfidf_keywords")

\* overall_percentage of the four-weight set and of the fallback set, from the
\* sub-scores of a result
FourWeightPct(d) ==
    PyRound(d.skills_match_rate * 50 + d.tfidf_match_rate * 25
            + d.all_keywords_match_rate * 15 + d.text_similarity * 10, 100)
FallbackPct(d) ==
    PyRound(d.skills_match_rate * 60 + d.all_keywords_match_rate * 30
            + d.text_similarity * 10, 100)

\* C1 as stated: the fallback weight set (0.60, 0.30, 0.10) is used exactly
\* when the job's tfidf_keywords list is empty, and the four-weight set
\* whenever the job's list is non-empty, whatever the resume's list holds.
C1_JobListDecides ==
    Scored =>
        /\ similarity_results.has_tfidf <=> (JobTfidf # <<>>)
        /\ similarity_results.overall_percentage \in
             (IF JobTfidf # <<>> THEN FourWeightPct(similarity_results.detailed_scores)
              ELSE FallbackPct(similarity_results.detailed_scores))

\* C1 amended: the fallback weight set is used exactly when the job's list or
\* the resume's list of tfidf_keywords is empty; the four-weight set exactly
\* when both lists are non-empty.
C1_BothListsDecide ==
    Scored =>
        /\ similarity_results.has_tfidf <=> (JobTfidf # <<>> /\ ResumeTfidf # <<>>)
        /\ similarity_results.overall_percentage \in
             (IF JobTfidf # <<>> /\ ResumeTfidf # <<>>
              THEN FourWeightPct(similarity_results.detailed_scores)
              ELSE FallbackPct(similarity_results.detailed_scores))

\* C1's case: the job has salient terms, the resume has none, and the two
\* weight sets give different percentages.
C1_Witness ==
    /\ Scored
    /\ JobTfidf # <<>>
    /\ ResumeTfidf = <<>>
    /\ FourWeightPct(similarity_results.detailed_scores)
         \cap FallbackPct(similarity_results.detailed_scores) = {}

\* The sub-scores the branch taken applies a weight to
AppliedScores(r) ==
    LET d == r.detailed_scores
    IN  IF r.has_tfidf
        THEN {d.skills_match_rate, d.tfidf_match_rate, d.all_keywords_match_rate,
              d.text_similarity}
        ELSE {d.skills_match_rate, d.all_keywords_match_rate, d.text_similarity}

\* C2: the applied weights sum to 1.0 in both branches: sub-scores all equal
\* to 1 give overall_percentage 100, all equal to 0 give 0, and
\* overall_percentage always lies in [0, 100].
C2_WeightsSumToOne ==
    /\ W_SKILLS + W_TFIDF + W_ALL + W_TEXT = 100
    /\ FB_SKILLS + FB_ALL + FB_TEXT = 100
    /\ Scored =>
        /\ similarity_results.overall_percentage \in 0..10000
        /\ AppliedScores(similarity_results) = {Unit}
             => similarity_results.overall_percentage = 10000
        /\ AppliedScores(similarity_results) = {0}
             => similarity_results.overall_percentage = 0

\* C2's case: the fallback branch with its three sub-scores all 1
C2_Witness ==
    /\ Scored
    /\ ~similarity_results.has_tfidf
    /\ AppliedScores(similarity_results) = {Unit}
    /\ similarity_results.overall_percentage = 10000

\* C3: match_rate is |resume_set \cap job_set| / |job_set| (rounded to 4
\* decimals), lies in [0, 1], is exactly 0.0 with no division fault when the
\* job list is empty, and repetitions in either list do not change it.
C3_MatchRate ==
    pc \in {"done", "raised"} =>
        LET resume_set == ToSet(resume_keywords)
            job_set == ToSet(job_keywords)
            n == Cardinality(resume_set \cap job_set)
            j == Cardinality(job_set)
        IN  /\ pc = "done"
            /\ ~Raised(overlap)
            /\ overlap.match_rate \in 0..Unit
            /\ job_set = {} => overlap.match_rate = 0
            \* the 4-decimal number nearest to n / j
            /\ job_set # {} =>
                 /\ 2 * (overlap.match_rate * j - n * Unit) <= j
                 /\ 2 * (n * Unit - overlap.match_rate * j) <= j
            /\ ToSet(overlap.matched_keywords) = resume_set \cap job_set
            /\ \A i \in 1..Len(job_keywords) :
                 overlap = keyword_overlap_score(resume_keywords,
                                                 Append(job_keywords, job_keywords[i]),
                                                 hash_seed)
            /\ \A i \in 1..Len(resume_keywords) :
                 overlap = keyword_overlap_score(Append(resume_keywords, resume_keywords[i]),
                                                 job_keywords, hash_seed)

\* C3's case: an empty job list against a non-empty resume list
C3_Witness ==
    /\ pc = "done"
    /\ job_keywords = <<>>
    /\ resume_keywords # <<>>
    /\ overlap.match_rate = 0

JobSkills == ToSet(Get(job_keywords, "technical_skills"))
ResumeSkills == ToSet(Get(resume_keywords, "technical_skills"))

\* C4: matched_skills is the intersection of the two technical_skills sets,
\* missing_skills the job's skills the resume lacks; they are disjoint and
\* together are the job's technical skills.
C4_MatchedMissingPartition ==
    Scored =>
        /\ ToSet(similarity_results.matched_skills) = JobSkills \cap ResumeSkills
        /\ ToSet(similarity_results.missing_skills) = JobSkills \ ResumeSkills
        /\ ToSet(similarity_results.matched_skills)
             \cap ToSet(similarity_results.missing_skills) = {}
        /\ ToSet(similarity_results.matched_skills)
             \cup ToSet(similarity_results.missing_skills) = JobSkills

\* C4's case: a job with a matched and a missing skill, and a resume with a
\* skill the job does not ask for
C4_Witness ==
    /\ Scored
    /\ similarity_results.matched_skills # <<>>
    /\ similarity_results.missing_skills # <<>>
    /\ ResumeSkills \ JobSkills # {}

\* C5: match_level is a total function of overall_percentage: Excellent iff
\* pct >= 80, Good iff 65 <= pct < 80, Moderate iff 50 <= pct < 65, Low iff
\* 35 <= pct < 50, Poor iff pct < 35.
C5_MatchLevel ==
    Scored =>
        LET pct == similarity_results.overall_percentage
            level == similarity_results.match_level
        IN  /\ level \in {"Excellent Match", "Good Match", "Moderate Match",
                          "Low Match", "Poor Match"}
            /\ level = "Excellent Match" <=> pct >= 8000
            /\ level = "Good Match" <=> (6500 <= pct /\ pct < 8000)
            /\ level = "Moderate Match" <=> (5000 <= pct /\ pct < 6500)
            /\ level = "Low Match" <=> (3500 <= pct /\ pct < 5000)
            /\ level = "Poor Match" <=> pct < 3500

\* C5's case: a percentage exactly on a threshold
C5_Witness ==
    /\ Scored
    /\ similarity_results.overall_percentage = 6500
    /\ similarity_results.match_level = "Good Match"

\* The order of the match levels
LevelRank(level) ==
    CASE level = "Poor Match" -> 0
      [] level = "Low Match" -> 1
      [] level = "Moderate Match" -> 2
      [] level = "Good Match" -> 3
      [] level = "Excellent Match" -> 4

\* The match rates a job of at most MaxKw + 1 keywords can have
MatchRates ==
    UNION { {Div(m, j, Unit) : m \in 0..j} : j \in 1..(MaxKw + 1) }

\* C6: with text similarity, salient-term rate, all-keywords rate and
\* salient-term availability held fixed, a larger skills_match_rate never
\* gives a smaller overall_percentage nor a lower match_level.
C6_Monotonic ==
    Scored =>
        LET r == similarity_results
            d == r.detailed_scores
        IN  \A s2 \in MatchRates :
            \A pct2 \in PyRound(WeightedScore(r.has_tfidf, s2, d.tfidf_match_rate,
                                              d.all_keywords_match_rate,
                                              d.text_similarity), 100) :
                /\ s2 > d.skills_match_rate =>
                     /\ pct2 >= r.overall_percentage
                     /\ LevelRank(MatchLevel(pct2)) >= LevelRank(r.match_level)
                /\ s2 < d.skills_match_rate =>
                     /\ pct2 <= r.overall_percentage
                     /\ LevelRank(MatchLevel(pct2)) <= LevelRank(r.match_level)

\* C6's case: a result whose skills rate lies strictly between two others
C6_Witness ==
    /\ Scored
    /\ similarity_results.detailed_scores.skills_match_rate = 5000
    /\ similarity_results.has_tfidf
    /\ similarity_results.match_level = "Moderate Match"


\* extract_keywords(job_description) has returned a bundle
JobExtracted == pc \in {"score", "recommend", "compile", "returned"} /\ job_keywords # None

\* C7: in the bundle extract_keywords returns, technical_skills is a subset
\* of all_keywords, and all_keywords is the duplicate-free union of
\* technical_skills, tfidf_keywords and (when present) spacy_keywords.
C7_AllKeywordsIsUnion ==
    JobExtracted =>
        LET all == job_keywords.all_keywords
            spacy == IF "spacy_keywords" \in DOMAIN job_keywords
                     THEN ToSet(job_keywords.spacy_keywords) ELSE {}
        IN  /\ ToSet(job_keywords.technical_skills) \subseteq ToSet(all)
            /\ ToSet(all) = ToSet(job_keywords.technical_skills)
                            \cup ToSet(job_keywords.tfidf_keywords) \cup spacy
            /\ Cardinality(ToSet(all)) = Len(all)

\* C7's case: a keyword found both as a technical skill and by spaCy, kept once
C7_Witness ==
    /\ JobExtracted
    /\ "spacy_keywords" \in DOMAIN job_keywords
    /\ ToSet(job_keywords.spacy_keywords) \cap ToSet(job_keywords.technical_skills) # {}
    /\ ToSet(job_keywords.spacy_keywords) \ ToSet(job_keywords.technical_skills) # {}
    /\ Len(job_keywords.all_keywords)
         < Len(job_keywords.spacy_keywords) + Len(job_keywords.technical_skills)

JobDegraded == Raised(fit_transform(preprocess_text(job_description)))

\* C9: a vectorization error is absorbed: it yields the empty salient-term
\* list, and extract_keywords raises only when spaCy does; and whenever the
\* job's extraction is degraded the calculator takes the fallback branch, so
\* no zero salient-term rate is weighted 0.25.
C9_DegradedTakesFallback ==
    /\ pc = "raised" => nlp = "loaded"
    /\ (JobExtracted /\ JobDegraded) => job_keywords.tfidf_keywords = <<>>
    /\ (Scored /\ JobDegraded) =>
         /\ ~similarity_results.has_tfidf
         /\ similarity_results.overall_percentage
              \in FallbackPct(similarity_results.detailed_scores)

\* C9's case: a degraded job whose fallback percentage differs from the one
\* the four weights would give
C9_Witness ==
    /\ Scored
    /\ JobDegraded
    /\ Tokens(preprocess_text(job_description)) # <<>>
    /\ FourWeightPct(similarity_results.detailed_scores)
         \cap FallbackPct(similarity_results.detailed_scores) = {}

\* C10: when job_description is the empty string, what analyze returns is a
\* failure result: success = false with an error message.
C10_EmptyJobFails ==
    (pc = "returned" /\ job_description = <<>>) =>
        /\ results.success = FALSE
        /\ "error" \in DOMAIN results

\* C11: analyze returns either an error record (success = false and an error
\* message, after no keyword extraction and no scoring) when the PDF text is
\* empty or the extraction raised, or else a complete record (success = true
\* with both bundles, the score breakdown and the recommendations); never a
\* mixture of the two.
C11_ErrorOrComplete ==
    pc = "returned" =>
        \/ /\ results.success = FALSE
           /\ DOMAIN results = {"error", "success"}
           /\ results.error \in {"Error reading PDF",
                                 "Failed to extract text from resume PDF"}
           /\ DOMAIN resume_text \in {{}, {"none"}}
           /\ resume_keywords = None
           /\ job_keywords = None
           /\ similarity_results = None
           /\ recommendations = None
        \/ /\ results.success = TRUE
           /\ DOMAIN results = {"success", "resume_analysis", "job_analysis",
                                "similarity_scores", "recommendations"}
           /\ Len(resume_text) > 0
           /\ resume_keywords # None
           /\ job_keywords # None
           /\ similarity_results # None
           /\ results.resume_analysis.keywords = resume_keywords
           /\ results.job_analysis.keywords = job_keywords
           /\ results.similarity_scores = similarity_results
           /\ "overall_percentage" \in DOMAIN results.similarity_scores
           /\ results.recommendations = recommendations
           /\ recommendations = generate_recommendations(similarity_results)

\* C11's case: the PDF gave an empty text and analyze returned the error record
C11_Witness ==
    /\ pc = "returned"
    /\ results.success = FALSE
    /\ results.error = "Failed to extract text from resume PDF"

\* C12: no exception leaves analyze: a failure in any stage gives a returned
\* error record, so the call never ends by raising.
C12_NoExceptionEscapes == pc # "raised"

\* generate_recommendations has returned
Recommended == pc = "compile"

\* The conditions whose message is in the list
Messages == {recommendations[i].msg : i \in 1..Len(recommendations)}

\* The fixed order of the messages
MessageRank(msg) ==
    CASE msg = "low_match" -> 1
      [] msg = "missing_skills" -> 2
      [] msg = "highlight_skills" -> 3
      [] msg = "strong_match" -> 4

\* C13: each of the four messages is present exactly when its own condition
\* holds (pct < 50; missing_skills non-empty; skills_match_rate < 0.5;
\* pct >= 70), whatever the other conditions; the missing-skills message
\* names the first 5 entries of missing_skills (all of them when there are
\* fewer); the messages come in that fixed order.
C13_IndependentConditions ==
    Recommended =>
        LET r == similarity_results
            n == Len(r.missing_skills)
        IN  /\ "low_match" \in Messages <=> r.overall_percentage < 5000
            /\ "missing_skills" \in Messages <=> r.missing_skills # <<>>
            /\ "highlight_skills" \in Messages
                 <=> r.detailed_scores.skills_match_rate < 5000
            /\ "strong_match" \in Messages <=> r.overall_percentage >= 7000
            /\ \A i \in 1..Len(recommendations) :
                 /\ recommendations[i].msg = "missing_skills" =>
                      recommendations[i].skills
                        = SubSeq(r.missing_skills, 1, IF n < 5 THEN n ELSE 5)
                 /\ \A j \in (i + 1)..Len(recommendations) :
                      MessageRank(recommendations[i].msg)
                        < MessageRank(recommendations[j].msg)
            /\ recommendations = <<>> <=>
                 /\ r.overall_percentage >= 5000
                 /\ r.overall_percentage < 7000
                 /\ r.missing_skills = <<>>
                 /\ r.detailed_scores.skills_match_rate >= 5000

\* C13's case: three conditions hold at once and more than 5 skills are
\* missing, of which the message names 5
C13_Witness ==
    /\ Recommended
    /\ Len(similarity_results.missing_skills) > 5
    /\ Len(recommendations) = 3
    /\ recommendations[2].msg = "missing_skills"
    /\ Len(recommendations[2].skills) = 5

\* C14 as stated: whenever skills_match_rate is 0.0, match_level is 'Poor
\* Match' and the recommendations include the low-match warning, whatever the
\* other sub-scores.
C14_ZeroSkillsIsPoor ==
    (Recommended /\ similarity_results.detailed_scores.skills_match_rate = 0) =>
        /\ similarity_results.match_level = "Poor Match"
        /\ "low_match" \in Messages

\* C14 amended: whenever skills_match_rate is 0.0, overall_percentage is at
\* most 50 with the four weights and at most 40 with the fallback weights;
\* match_level is Poor, Low or (at exactly 50, four weights) Moderate, never
\* Good or Excellent; the low-match warning is present unless the percentage
\* is exactly 50; the highlight-skills suggestion is present and the
\* strong-match message is not.
C14_ZeroSkillsBounded ==
    (Recommended /\ similarity_results.detailed_scores.skills_match_rate = 0) =>
        LET r == similarity_results
        IN  /\ r.has_tfidf =>
                 /\ r.overall_percentage <= 5000
                 /\ r.match_level \in {"Poor Match", "Low Match", "Moderate Match"}
                 /\ r.match_level = "Moderate Match" <=> r.overall_percentage = 5000
            /\ ~r.has_tfidf =>
                 /\ r.overall_percentage <= 4000
                 /\ r.match_level \in {"Poor Match", "Low Match"}
            /\ "low_match" \in Messages <=> r.overall_percentage < 5000
            /\ "highlight_skills" \in Messages
            /\ "strong_match" \notin Messages

\* C14's case: no shared skill, the other three sub-scores all 1: 50 percent,
\* 'Moderate Match' and no low-match warning
C14_Witness ==
    /\ Recommended
    /\ similarity_results.detailed_scores.skills_match_rate = 0
    /\ similarity_results.overall_percentage = 5000
    /\ similarity_results.match_level = "Moderate Match"
    /\ "low_match" \notin Messages

\* extract_skills_rag has returned
Detected == detected_skills # None

\* The greatest similarity of a skill of the vocabulary with an n-gram of the
\* text of the last call
MaxSimilarity(skill) ==
    MaxOf({IF ngram = skill THEN Unit ELSE detected_skills.similarities[<<ngram, skill>>] :
              ngram \in ToSet(extract_ngrams(detected_skills.text))})

\* C15 (without "at most once"): with return_scores=True on a text that has
\* n-grams, every returned pair is a skill of the vocabulary with its greatest
\* similarity over the n-grams, every returned score is at least the
\* threshold, every skill whose greatest similarity is at least the threshold
\* is returned when top_k is unset, and the scores do not increase along the
\* list.
C15_ScoresThresholdOrder ==
    (Detected /\ detected_skills.return_scores /\ extract_ngrams(detected_skills.text) # <<>>) =>
        LET self == extractors[detected_skills.worker]
            value == detected_skills.value
        IN  /\ \A i \in 1..Len(value) :
                 /\ value[i].skill \in ToSet(self.skills_list)
                 /\ value[i].score = MaxSimilarity(value[i].skill)
                 /\ value[i].score >= detected_skills.threshold
            /\ detected_skills.top_k = 0 =>
                 \A skill \in ToSet(self.skills_list) :
                     MaxSimilarity(skill) >= detected_skills.threshold =>
                         \E i \in 1..Len(value) : value[i].skill = skill
            /\ \A i \in 1..(Len(value) - 1) : value[i].score >= value[i + 1].score

\* C15: for every text and threshold, extract_skills_rag with
\* return_scores=True returns (skill, score) pairs in which each skill of the
\* vocabulary appears at most once, each score is the skill's greatest
\* similarity over the n-grams of the text, every score is at least the
\* threshold, every skill whose greatest similarity is at least the threshold
\* is returned (top_k unset), and the list is sorted by score, non-increasing.
C15_EachSkillOnceWithMaxScore ==
    /\ C15_ScoresThresholdOrder
    /\ (Detected /\ detected_skills.return_scores) =>
         \A i, j \in 1..Len(detected_skills.value) :
             detected_skills.value[i].skill = detected_skills.value[j].skill => i = j


\* The constructor of the extractor has returned
Constructed(w) == extractors[w].pc = "done"

\* C16: _load_or_create_embeddings keeps the cached embeddings only when the
\* cached skill list equals the current skills_list; in every other case
\* (mismatch, unreadable cache, no cache) it recomputes the embeddings of the
\* whole current list and writes the whole cache file anew, so that a
\* complete cache file always holds the embeddings of exactly its own skill
\* list; once the constructor has returned, skill_embeddings has one row per
\* entry of skills_list, in the same order.
C16_CacheKeptOnlyWhenEqual ==
    /\ cache_file.state = "full" => cache_file.embeddings = encode(cache_file.skills)
    /\ \A w \in RagWorkers :
         Constructed(w) =>
            LET self == extractors[w]
            IN  /\ self.skill_embeddings = encode(self.skills_list)
                /\ self.load = "hit" <=> self.save = "none"
                /\ self.load = "hit" => cache_file = FullFile(self.skills_list, self.skill_embeddings)
                /\ self.save = "ok" =>
                     cache_file = FullFile(self.skills_list, encode(self.skills_list))

\* A cache written for another list of as many skills was found, and the
\* constructor has rebuilt and rewritten it
C16_Witness ==
    /\ Constructed(1)
    /\ extractors[1].load = "mismatch"
    /\ extractors[1].save = "ok"
    /\ Len(extractors[1].skills_list) = Len(StaleSkills)
    /\ cache_file.skills # StaleSkills

\* C17 (first half): at most one worker has the cache file open for writing
C17_OneWriterAtATime ==
    Cardinality({w \in CacheWorkers : extractors[w].pc = "dump"}) <= 1

\* C17 (second half): no worker reads the cache file while it is partly written
C17_NoPartialRead ==
    [][\A w \in CacheWorkers :
          (extractors[w].pc = "load" /\ extractors'[w].pc # "load") =>
              cache_file.state # "partial"]_vars

\* C17: when two workers construct a RAGSkillsExtractor at once and no valid
\* cache file exists, the cache builds are serialized: at most one worker
\* writes the cache file at a time, and no worker ever reads a partly written
\* cache file.
C17_BuildsSerialized == []C17_OneWriterAtATime /\ C17_NoPartialRead

\* C18: cache errors do not stop the construction.  Whatever the cache file,
\* the constructor raises only for an empty skill list; a cache that cannot
\* be read or lacks a field leads to a rebuild of all embeddings; when the
\* cache cannot be written the constructor still returns with the embeddings
\* it computed, and extract_skills_rag then returns what it returns with
\* freshly computed embeddings.
C18_CacheErrorsNotFatal ==
    \A w \in RagWorkers :
        LET self == extractors[w]
        IN  /\ self.pc = "raised" => self.skills_list = <<>>
            /\ (Constructed(w) /\ self.load = "error") =>
                 /\ self.save # "none"
                 /\ self.skill_embeddings = encode(self.skills_list)
            /\ (Constructed(w) /\ self.save = "failed") =>
                 self.skill_embeddings = encode(self.skills_list)
            /\ (Detected /\ detected_skills.worker = w /\ self.save = "failed") =>
                 detected_skills.value =
                     extract_skills_rag(self.skills_list, encode(self.skills_list),
                                        detected_skills.text, detected_skills.threshold,
                                        detected_skills.top_k, detected_skills.return_scores,
                                        detected_skills.similarities)

\* The cache lacked a field, the rebuilt cache could not be written, and a
\* later extract_skills_rag has found a skill
C18_Witness ==
    /\ Constructed(1)
    /\ extractors[1].load = "error"
    /\ extractors[1].save = "failed"
    /\ cache_file.state = "no_skills"
    /\ Detected
    /\ detected_skills.return_scores
    /\ detected_skills.value # <<>>

\* C20: a call of calculate_weighted_score with the arguments of an earlier
\* call returns a result identical to the earlier one in every field,
\* the order of matched_skills and missing_skills included.
C20_RepeatedCallsAgree ==
    [][(pc = "recommend" /\ pc' = "recommend") => similarity_results' = similarity_results]_vars

\* C19: preprocess_text is idempotent, and its output holds only characters
\* of [a-z0-9 +#], with no space at either end and no two spaces in a row.
C19_PreprocessIdempotent ==
    pc = "preprocessed" =>
        /\ preprocess_text(preprocessed_text) = preprocessed_text
        /\ \A i \in 1..Len(preprocessed_text) :
             /\ preprocessed_text[i] \in {"r", "c", "7", " ", "+", "#"}
             /\ preprocessed_text[i] = " " =>
                  /\ i > 1
                  /\ i < Len(preprocessed_text)
                  /\ preprocessed_text[i + 1] # " "

\* C19's case: a text with an upper-case letter, a punctuation mark and a tab
\* at its end, cleaned to two words
C19_Witness ==
    /\ pc = "preprocessed"
    /\ job_description = <<"R", ".", "+", "\t">>
    /\ preprocessed_text = <<"r", " ", "+">>

\* The entry occurs in the text as whole tokens: at some place the text reads
\* the entry, and no word character of the text touches the entry's first
\* or last word character from outside
OccursAsTokens(text, skill) ==
    \E i \in 1..(Len(text) + 1) :
        /\ MatchesAt(text, skill, i)
        /\ ~(IsWordChar(skill[1]) /\ i > 1 /\ IsWordChar(text[i - 1]))
        /\ ~(/\ IsWordChar(skill[Len(skill)])
             /\ i + Len(skill) <= Len(text)
             /\ IsWordChar(text[i + Len(skill)]))

\* C21 (single-word entries): an entry without a space is reported only when
\* it occurs in the text as a whole token.
C21_SingleWordEntries ==
    JobExtracted =>
        \A skill \in ToSet(job_keywords.technical_skills) :
            " " \notin ToSet(skill) => OccursAsTokens(Lower(job_description), skill)

\* C21: extract_technical_skills reports a dictionary entry only when the
\* entry occurs in the text as whole tokens, for entries without a space
\* ('r') and equally for entries with a space ('c ').
C21_WholeTokensOnly ==
    JobExtracted =>
        \A skill \in ToSet(job_keywords.technical_skills) :
            OccursAsTokens(Lower(job_description), skill)

\* The eligible terms of a document: the terms of its normalized text that
\* are in no stop list and have more than two characters
EligibleTerms(text) ==
    {term \in Terms(Tokens(preprocess_text(text)), MAX_NGRAM) :
        term \notin custom_stop_words /\ Len(term) > MIN_KW_LEN}

\* C22: for a single document whose normalized text holds an eligible term,
\* extract_keywords_tfidf returns a non-empty list of at most top_n terms;
\* the empty list is returned only when there is no eligible term.
C22_EligibleTermGivesKeywords ==
    JobExtracted =>
        /\ Len(job_keywords.tfidf_keywords) <= TOP_N
        /\ EligibleTerms(job_description) # {} => Len(job_keywords.tfidf_keywords) > 0

\* C23: when top_k is set, extract_skills_rag returns the top k matches by
\* score whatever the threshold: as many pairs as top_k allows and the
\* vocabulary has, none of them scoring lower than a skill left out.
C23_TopKIgnoresThreshold ==
    (/\ Detected
     /\ detected_skills.return_scores
     /\ detected_skills.top_k # 0
     /\ extract_ngrams(detected_skills.text) # <<>>) =>
        LET self == extractors[detected_skills.worker]
            value == detected_skills.value
            k == detected_skills.top_k
        IN  /\ Len(value) = (IF Len(self.skills_list) < k THEN Len(self.skills_list) ELSE k)
            /\ \A i \in 1..Len(value) :
                 \A skill \in ToSet(self.skills_list) :
                     MaxSimilarity(skill) > value[i].score =>
                         \E j \in 1..Len(value) : value[j].skill = skill

\* C30 (rows): once the constructor has returned, skill_embeddings has one
\* row per entry of skills_list, each the embedding of that entry by some
\* model.
C30_RowsOfCurrentSkills ==
    \A w \in RagWorkers :
        Constructed(w) =>
            \E model \in EmbeddingModels :
                extractors[w].skill_embeddings = encode_by(model, extractors[w].skills_list)

\* C30: once the constructor has returned, skill_embeddings holds the
\* embeddings of the current skills_list computed by the embedding model the
\* instance is configured with, loaded or rebuilt; a cache file of another
\* embedding model or of another skill list is never taken for valid.
C30_EmbeddingsOfConfiguredModel ==
    \A w \in RagWorkers :
        Constructed(w) =>
            LET self == extractors[w]
            IN  /\ self.skill_embeddings = encode_by(self.embedding_model_name, self.skills_list)
                /\ self.load = "hit" =>
                     cache_file.embeddings = encode_by(self.embedding_model_name, self.skills_list)

\* C28: when the job has no technical skill, skills_match_rate is 0 whatever
\* the resume holds, overall_percentage is at most 50 (40 with the fallback
\* weights), match_level is neither 'Excellent Match' nor 'Good Match', and
\* the recommendations hold the highlight-skills suggestion although
\* missing_skills is empty (and no missing-skills message is made).
C28_NoJobSkillsCapsScore ==
    (Recommended /\ Len(job_keywords.technical_skills) = 0) =>
        LET r == similarity_results
        IN  /\ r.detailed_scores.skills_match_rate = 0
            /\ r.overall_percentage <= (IF r.has_tfidf THEN 5000 ELSE 4000)
            /\ r.match_level \notin {"Excellent Match", "Good Match"}
            /\ "highlight_skills" \in Messages
            /\ Len(r.missing_skills) = 0
            /\ "missing_skills" \notin Messages

\* C28's case: the job names no skill, the resume names some, and the other
\* three sub-scores are all 1
C28_Witness ==
    /\ Recommended
    /\ Len(job_keywords.technical_skills) = 0
    /\ Len(resume_keywords.technical_skills) > 0
    /\ similarity_results.has_tfidf
    /\ similarity_results.overall_percentage = 5000

\* The pair of 'meets_threshold' and 'recommendation' computed for the scores
RecommendationGiven == engine_result.result # Nothing

\* C29: for every match_score and every minimum_score in [0,100] the
\* recommendation of the result agrees with its meets_threshold flag: the
\* below-threshold message exactly when match_score < minimum_score, one of
\* the three positive messages exactly when meets_threshold is true.
C29_RecommendationAgreesWithThreshold ==
    RecommendationGiven =>
        LET given == engine_result.result[1]
        IN  /\ given.recommendation = "below_threshold"
                   <=> engine_result.match_score < engine_result.minimum_score
            /\ given.recommendation \in {"excellent", "good", "meets_minimum"}
                   <=> given.meets_threshold

\* The call of process_application made in the step: its arguments and what
\* it yielded are in engine_result'
ProcessApplicationStep ==
    /\ ~EngineCalled
    /\ engine_result' # None
    /\ engine_result'.call = "process_application"

\* The arguments are an active job, a user of the table and a readable resume
ValidApplication(call) ==
    /\ call.job_id \in DOMAIN db_jobs
    /\ db_jobs[call.job_id].status = "active"
    /\ call.user_id \in DOMAIN db_users
    /\ call.readable

\* C24: for an active job, a user who has not applied to it and a readable
\* resume, process_application stores exactly one application whose
\* match_score is the result's, and returns a result with that application_id
\* and meets_threshold = (match_score >= job.minimum_score).
C24_ProcessApplicationStores ==
    [][(/\ ProcessApplicationStep
        /\ ValidApplication(engine_result')
        /\ ~AlreadyApplied(db_applications, engine_result'.job_id, engine_result'.user_id))
       => /\ ~Raised(engine_result'.outcome)
          /\ "application_id" \in DOMAIN engine_result'.outcome.value
          /\ Len(db_applications') = Len(db_applications) + 1
          /\ SubSeq(db_applications', 1, Len(db_applications)) = db_applications
          /\ LET returned == engine_result'.outcome.value
                 stored == db_applications'[Len(db_applications')]
             IN  /\ stored.application_id = returned.application_id
                 /\ stored.job_id = engine_result'.job_id
                 /\ stored.user_id = engine_result'.user_id
                 /\ stored.match_score = returned.match_score
                 /\ returned.meets_threshold
                        = (returned.match_score >= db_jobs[engine_result'.job_id].minimum_score)]_vars

\* C25 (the table): at most one application per pair of a job and a user.
C25_AtMostOnePerPair ==
    \A i, j \in 1..Len(db_applications) :
        (/\ db_applications[i].job_id = db_applications[j].job_id
         /\ db_applications[i].user_id = db_applications[j].user_id) => i = j

\* C25 (the table): a second create_application for a pair returns None and
\* leaves the table as it was.
C25_SecondCreateReturnsNone ==
    [][(/\ ~EngineCalled
        /\ engine_result' # None
        /\ engine_result'.call = "create_application"
        /\ AlreadyApplied(db_applications, engine_result'.job_id, engine_result'.user_id))
       => /\ engine_result'.outcome = Ok(0)
          /\ db_applications' = db_applications]_vars

\* C25: at most one application per (job_id, user_id); a second
\* create_application for the pair returns None and leaves the record's
\* scores, skills and status unchanged, and process_application then returns
\* the 'already applied' error without updating the user's stored resume.
C25_SecondApplicationRefused ==
    [][(/\ ProcessApplicationStep
        /\ ValidApplication(engine_result')
        /\ AlreadyApplied(db_applications, engine_result'.job_id, engine_result'.user_id))
       => /\ engine_result'.outcome = Ok([error |-> "You have already applied to this job"])
          /\ db_applications' = db_applications
          /\ db_users' = db_users]_vars

\* The ranking asked for last, if the last call was get_ranked_candidates
Ranked == engine_result # None /\ engine_result.call = "get_ranked_candidates"

\* min_score, or the job's minimum_score when it is None
EffectiveMinimum(call) ==
    IF call.min_score = Nothing THEN db_jobs[call.job_id].minimum_score ELSE call.min_score[1]

\* The applications of the job at or over the effective minimum
Eligible(call) ==
    {db_applications[i] : i \in {k \in 1..Len(db_applications) :
        /\ db_applications[k].job_id = call.job_id
        /\ db_applications[k].match_score >= EffectiveMinimum(call)}}

\* C26: get_ranked_candidates returns only applications of the job with
\* match_score >= the effective minimum (the job's minimum_score when
\* min_score is None, the given value otherwise, 0 included), by match_score
\* non-increasing, at most limit of them, omitting no application with a
\* higher score than a returned one; an unknown job_id raises ValueError.
C26_RankedCandidates ==
    Ranked =>
        IF engine_result.job_id \notin DOMAIN db_jobs
        THEN engine_result.outcome = ValueError
        ELSE /\ ~Raised(engine_result.outcome)
             /\ LET candidates == engine_result.outcome.value
                    returned == {candidates[i] : i \in 1..Len(candidates)}
                IN  /\ returned \subseteq Eligible(engine_result)
                    /\ \A i \in 1..(Len(candidates) - 1) :
                           candidates[i].match_score >= candidates[i + 1].match_score
                    /\ Len(candidates) <= engine_result.limit
                    /\ Cardinality(returned) = Len(candidates)
                    /\ \A omitted \in Eligible(engine_result) \ returned :
                           \A kept \in returned : omitted.match_score <= kept.match_score

\* A ranking by the job's own minimum_score that leaves out an application
\* under it and one cut by the limit
C26_Witness ==
    /\ Ranked
    /\ engine_result.job_id \in DOMAIN db_jobs
    /\ engine_result.min_score = Nothing
    /\ Len(engine_result.outcome.value) = 1
    /\ \E i \in 1..Len(db_applications) :
           /\ db_applications[i].job_id = engine_result.job_id
           /\ db_applications[i].match_score < db_jobs[engine_result.job_id].minimum_score

\* A ranking with min_score = 0 cut by the limit, the lower score left out
C26_WitnessLimit ==
    /\ Ranked
    /\ engine_result.job_id \in DOMAIN db_jobs
    /\ engine_result.min_score = Some(0)
    /\ engine_result.limit = 1
    /\ Cardinality(Eligible(engine_result)) = 2
    /\ \E omitted \in Eligible(engine_result) :
           omitted.match_score < engine_result.outcome.value[1].match_score

\* The batch asked for last, if the last call was batch_apply
Batched == engine_result # None /\ engine_result.call = "batch_apply"

\* How many times the job id is at the positions of the list of records or ids
TimesIn(job_id, ids) == Cardinality({i \in 1..Len(ids) : ids[i] = job_id})

\* C27: batch_apply never raises and accounts for every job id exactly once:
\* successful_applications + failed_applications = total_jobs = len(job_ids)
\* = len(applications); an entry is 'success' iff process_application
\* returned without an 'error' key (it then carries the match_score, else the
\* error); a failure on one job id does not stop the following ones; the
\* entries are by match_score non-increasing, a missing score counting as 0.
C27_BatchAccountsForEveryJob ==
    Batched =>
        /\ ~Raised(engine_result.outcome)
        /\ LET batch == engine_result.outcome.value
               entries == batch.applications
           IN  /\ batch.total_jobs = Len(engine_result.job_ids)
               /\ Len(entries) = Len(engine_result.job_ids)
               /\ batch.successful_applications + batch.failed_applications
                      = batch.total_jobs
               /\ batch.successful_applications
                      = Cardinality({i \in 1..Len(entries) : entries[i].status = "success"})
               /\ \A job_id \in JobIds :
                      TimesIn(job_id, [i \in 1..Len(entries) |-> entries[i].job_id])
                          = TimesIn(job_id, engine_result.job_ids)
               /\ \A i \in 1..Len(entries) :
                      /\ entries[i].status \in {"success", "failed", "error"}
                      /\ entries[i].status = "success" <=> "match_score" \in DOMAIN entries[i]
                      /\ entries[i].status # "success" <=> "error" \in DOMAIN entries[i]
               /\ \A i \in 1..(Len(entries) - 1) :
                      ScoreOrZero(entries[i]) >= ScoreOrZero(entries[i + 1])

\* A batch whose first job id fails for want of the job and whose second,
\* an active job, is processed all the same
C27_Witness ==
    /\ Batched
    /\ engine_result.user_id \in DOMAIN db_users
    /\ engine_result.readable
    /\ Len(engine_result.job_ids) = 2
    /\ engine_result.job_ids[1] \notin DOMAIN db_jobs
    /\ db_jobs[engine_result.job_ids[2]].status = "active"
    /\ ~Raised(engine_result.outcome)
    /\ \E i \in 1..2 :
           /\ engine_result.outcome.value.applications[i].job_id = engine_result.job_ids[2]
           /\ engine_result.outcome.value.applications[i].status = "error"

============================================================================
